---- MODULE Spec2Model ----
(***************************************************************************)
(* Model of otto's chunked-upload session engine (ChunkedUploadService)    *)
(* and of the deduplicating file pipeline behind it (FileService,          *)
(* FileModel).                                                             *)
(*                                                                         *)
(* Execution model.  The server is one Node.js event loop.  The code       *)
(* between two awaits on real I/O (a stream event, a database round trip)  *)
(* runs without interruption, so each such stretch is one action.  An      *)
(* await on a promise that is already settled (cleanupChunks,              *)
(* cleanupSession, a function returning without I/O) only defers to the    *)
(* microtask queue of the same turn and is folded into the surrounding     *)
(* action.  A request that has yielded is an entry of `tasks`.             *)
(*                                                                         *)
(* Bytes.  File content is a sequence of blocks, each block standing for   *)
(* chunkSize bytes, so Size(c) = Len(c) * chunkSize.  The content hash     *)
(* (sha256) is modelled as collision free: the hash of a content is the    *)
(* block sequence itself, and two contents have the same hash exactly      *)
(* when they are the same bytes.                                           *)
(***************************************************************************)
EXTENDS Integers, Sequences, FiniteSets, TLC

(* ---------------------------- bounds ----------------------------------- *)
\* sessions ever initialised (session ids are fresh uuids, never reused)
MaxSessions == 1
\* requests that may be suspended at an await at the same time
MaxTasks == 2
\* files ever handed to processUploadedFiles under Spec
MaxUploads == 2
\* files ever handed to processUploadedFiles under SpecFiles
MaxUploadsFiles == 4
\* files ever handed to processUploadedFiles under SpecPublic
MaxUploadsPublic == 3
\* files of one upload request, and files ever uploaded, under SpecBatch
MaxBatch == 3
MaxUploadsBatch == 6
\* sessions ever initialised under SpecInit
MaxSessionsInit == 2
\* sessions and assemblies in the specification of the reaper
MaxSessionsReaper == 2
MaxUploadsReaper == 1
\* last clock value
MaxTime == 2

(* ------------------------ configuration -------------------------------- *)
\* this.chunkSize (CHUNK_SIZE); also the size of one content block
chunkSize == 512
\* maxFileSize of initializeUpload (MAX_TOTAL_FILE_SIZE)
maxFileSize == 1024
\* this.sessionTimeout (CHUNK_SESSION_TIMEOUT), in clock ticks
sessionTimeout == 1
\* shouldCompress: files below this size are never compressed
CompressMinSize == 1024

\* the chunk bodies a client sends: one block, or an oversized two-block body
\* (the chunk route accepts bodies up to MAX_CHUNK_SIZE, 30MB by default, which
\* is two blocks as soon as CHUNK_SIZE is 15MB or less)
ChunkBuffers == {<<"a">>, <<"a", "a">>}
\* whole-file uploads: body and declared MIME type
WholeFiles ==
    {<<(<<"a">>), "application/octet-stream">>,
     <<(<<"a", "a">>), "application/octet-stream">>,
     <<(<<"a", "a">>), "text/plain">>}
\* init requests: declared total size and MIME type
InitRequests ==
    {<<chunkSize, "application/octet-stream">>,
     <<2 * chunkSize, "application/octet-stream">>,
     <<2 * chunkSize, "text/plain">>}
\* chunk indices 0 .. MaxChunks-1 cover the largest declared size
MaxChunks == 2
Platforms == {"posix", "win32"}

Size(content) == Len(content) * chunkSize

\* Math.ceil(totalSize / chunkSize)
CeilDiv(a, b) == (a + b - 1) \div b

NoPath == <<0, "">>
NoFd == [kind |-> "none", path |-> NoPath]
Idle == [pc |-> "idle"]

VARIABLES
    now,            \* the clock (Date.now())
    platform,       \* path.* flavour of the deployment, fixed at start
    limits,         \* the bounds in force for this specification
    heap,           \* session objects ever created: id -> object
    uploadSessions, \* keys of the uploadSessions Map
    chunkFiles,     \* tempDir/<sid>/chunk-<i>: <<sid, i>> -> content
    tempFiles,      \* tempDir/<sid>-<originalFilename>: sid -> content
    blobs,          \* files under the upload directory: path -> content
    nextPath,       \* counter behind the fresh file names
    files,          \* rows of the files table, in insertion order
    tasks,          \* requests suspended at an await
    ret             \* the response the last step sent (NoRet: it sent none)

vars == <<now, platform, limits, heap, uploadSessions, chunkFiles, tempFiles,
          blobs, nextPath, files, tasks, ret>>

diskVars == <<chunkFiles, tempFiles, blobs>>

NoRet == [op |-> "none", sid |-> 0, ok |-> TRUE, err |-> "", file |-> 0,
          info |-> <<>>]

Ok(op, sid, file, info) ==
    [op |-> op, sid |-> sid, ok |-> TRUE, err |-> "", file |-> file, info |-> info]

Err(op, sid, msg, info) ==
    [op |-> op, sid |-> sid, ok |-> FALSE, err |-> msg, file |-> 0, info |-> info]

(* --------------------------- helpers ----------------------------------- *)
SessionIds == 1 .. limits.sessions
TaskIds == 1 .. MaxTasks
ChunkIndices == 0 .. (MaxChunks - 1)

FreeSlots == {t \in TaskIds : tasks[t].pc = "idle"}
\* a request that must suspend takes the lowest free slot
FreeSlot == CHOOSE t \in FreeSlots : \A u \in FreeSlots : t <= u

Remove(f, keys) == [k \in (DOMAIN f) \ keys |-> f[k]]
Put(f, k, v) == [x \in (DOMAIN f) \cup {k} |-> IF x = k THEN v ELSE f[x]]

\* the test `new Date() >= session.expiresAt`: the variant C35 is tested against
isSessionExpired_Inclusive(session) == now >= session.expiresAt

\* isSessionExpired: new Date() > session.expiresAt
isSessionExpired(session) == now > session.expiresAt

\* a count that ignores the last record: the variant C20 is tested against
uploadedChunks_OneShort(session) ==
    IF DOMAIN session.chunks = {} THEN 0 ELSE Cardinality(DOMAIN session.chunks) - 1

\* Array.from(session.chunks.values()).filter(c => c.uploaded).length
uploadedChunks(session) == Cardinality(DOMAIN session.chunks)

\* the loop of getSessionStatus / assembleFile over 0 .. totalChunks-1
missingChunks(session) ==
    {i \in 0 .. (session.totalChunks - 1) : i \notin DOMAIN session.chunks}

\* the index in the message of assembleFile's `Missing chunk ${i}` (lines
\* 208-212): the loop throws at the first index without a record
firstMissing(session) ==
    CHOOSE i \in missingChunks(session) : \A j \in missingChunks(session) : i <= j

RECURSIVE pushMissing_Unshift(_, _)
\* the loop of getSessionStatus with unshift in place of push: the variant C17
\* is tested against
pushMissing_Unshift(session, i) ==
    IF i >= session.totalChunks THEN <<>>
    ELSE pushMissing_Unshift(session, i + 1)
         \o (IF i \notin DOMAIN session.chunks THEN <<i>> ELSE <<>>)

RECURSIVE pushMissing(_, _)
\* the loop of getSessionStatus (lines 168-174): i runs from `i` up to
\* totalChunks-1 and every index without a record is pushed onto the list
pushMissing(session, i) ==
    IF i >= session.totalChunks THEN <<>>
    ELSE (IF i \notin DOMAIN session.chunks THEN <<i>> ELSE <<>>)
         \o pushMissing(session, i + 1)

\* progress of getSessionStatus (line 183): (uploadedChunks / totalChunks) * 100.
\* With totalChunks <= MaxChunks = 2 every quotient (0, 1/2, 1) is a binary
\* fraction, so the double-precision result is the exact integer computed here.
progress(uploaded, totalChunks) == (uploaded * 100) \div totalChunks

ChunkFilesOf(sid) == {k \in DOMAIN chunkFiles : k[1] = sid}

\* cleanupChunks whose loop starts at the second entry of the directory: the
\* variant C15 is tested against
cleanupChunks_SkipsFirst(cf, sid, failAt) ==
    IF sid \notin uploadSessions THEN cf
    ELSE Remove(cf, {k \in DOMAIN cf : k[1] = sid /\ k[2] > 0 /\ k[2] < failAt})

\* cleanupChunks: does nothing for a session that is not in the table; removes
\* the files of the session directory in readdir order.  A file-system error is
\* caught and logged: the file at which it occurs and those after it stay.
\* failAt = MaxChunks stands for a run without error.
cleanupChunks(cf, sid, failAt) ==
    IF sid \notin uploadSessions THEN cf
    ELSE Remove(cf, {k \in DOMAIN cf : k[1] = sid /\ k[2] < failAt})

\* where cleanupChunks of session sid can fail: at one of its files, or nowhere
FailPoints(sid) ==
    IF sid \in uploadSessions
    THEN {k[2] : k \in ChunkFilesOf(sid)} \cup {MaxChunks}
    ELSE {MaxChunks}

\* a write stream bound to file `from` follows a rename, and is left with an
\* unlinked inode ("orphan") when the file is removed
Rebind(tk, from, to) ==
    [t \in DOMAIN tk |->
        IF tk[t].pc # "idle" /\ tk[t].fd = from
        THEN [tk[t] EXCEPT !.fd = to]
        ELSE tk[t]]

TempFd(sid) == [kind |-> "temp", path |-> <<sid, "">>]
BlobFd(path) == [kind |-> "blob", path |-> path]
OrphanFd == [kind |-> "orphan", path |-> NoPath]

\* a positioned write of `data` at offset 0 over the current content
Overlay(data, old) ==
    IF Len(data) >= Len(old) THEN data
    ELSE data \o SubSeq(old, Len(data) + 1, Len(old))

(* ---------------------- Upload Session Manager ------------------------- *)
Start(platforms, sessions, uploads) ==
    /\ now = 0
    /\ platform \in platforms
    /\ limits = [sessions |-> sessions, uploads |-> uploads]
    /\ heap = <<>>
    /\ uploadSessions = {}
    /\ chunkFiles = <<>>
    /\ tempFiles = <<>>
    /\ blobs = <<>>
    /\ nextPath = 1
    /\ files = <<>>
    /\ tasks = [t \in TaskIds |-> Idle]
    /\ ret = NoRet

\* initializeUpload (controller) + initializeSession
initializeSession(totalSize, mimeType) ==
    /\ Len(heap) < limits.sessions
    /\ LET sid == Len(heap) + 1
           session == [totalSize |-> totalSize,
                       totalChunks |-> CeilDiv(totalSize, chunkSize),
                       mimeType |-> mimeType,
                       createdAt |-> now,
                       expiresAt |-> now + sessionTimeout,
                       chunks |-> <<>>,
                       completed |-> FALSE,
                       processedFile |-> 0]
       IN /\ heap' = Append(heap, session)
          /\ uploadSessions' = uploadSessions \cup {sid}
          /\ ret' = Ok("init", sid, 0, <<session.totalChunks, session.expiresAt>>)
    /\ UNCHANGED <<now, platform, limits, diskVars, nextPath, files, tasks>>

\* cleanupSession: cleanupChunks, then uploadSessions.delete
cleanupSessionFiles(sid, failAt) == cleanupChunks(chunkFiles, sid, failAt)

NewTask(op, sid, idx, data, path, size, mime) ==
    [pc |-> "open", op |-> op, sid |-> sid, idx |-> idx, data |-> data,
     fd |-> NoFd, path |-> path, size |-> size, mime |-> mime,
     hash |-> <<>>, existing |-> 0, finalPath |-> NoPath, finalSize |-> 0,
     context |-> "general", forcePublic |-> "null",
     rest |-> <<>>, done |-> <<>>]

RECURSIVE ConcatOf_Descending(_, _, _, _)
\* the assembly loop run from the last index down to 0: the variant C16 is
\* tested against
ConcatOf_Descending(cf, sid, i, n) ==
    IF i >= n THEN <<>>
    ELSE ConcatOf_Descending(cf, sid, i + 1, n) \o cf[<<sid, i>>]

RECURSIVE ConcatOf(_, _, _, _)
\* chunks read in index order 0, 1, ... and written to the stream
ConcatOf(cf, sid, i, n) ==
    IF i >= n THEN <<>>
    ELSE cf[<<sid, i>>] \o ConcatOf(cf, sid, i + 1, n)

\* assembleFile without the lookup in the session table (lines 193-196): the
\* variant C11 is tested against
assembleBegin_NoTableCheck(hp, cf, sid) ==
    IF sid > Len(hp)
    THEN [kind |-> "error", err |-> "Upload session not found", file |-> 0]
    ELSE LET session == hp[sid]
             missing == missingChunks(session)
         IN IF session.completed
            THEN IF session.processedFile # 0
                 THEN [kind |-> "return", err |-> "", file |-> session.processedFile]
                 ELSE [kind |-> "error", file |-> 0,
                       err |-> "Session completed but no processed file found"]
            ELSE IF missing # {}
            THEN [kind |-> "error", err |-> "Missing chunk", file |-> 0]
            ELSE IF \E i \in 0 .. (session.totalChunks - 1) : <<sid, i>> \notin DOMAIN cf
            THEN [kind |-> "readfail", err |-> "ENOENT", file |-> 0]
            ELSE [kind |-> "suspend", err |-> "", file |-> 0]

\* assembleFile without the loop that verifies the chunks (lines 208-212): the
\* variant C4 is tested against
assembleBegin_NoChunkCheck(hp, cf, sid) ==
    IF sid \notin uploadSessions
    THEN [kind |-> "error", err |-> "Upload session not found", file |-> 0]
    ELSE LET session == hp[sid]
         IN IF session.completed
            THEN IF session.processedFile # 0
                 THEN [kind |-> "return", err |-> "", file |-> session.processedFile]
                 ELSE [kind |-> "error", file |-> 0,
                       err |-> "Session completed but no processed file found"]
            ELSE IF \E i \in 0 .. (session.totalChunks - 1) : <<sid, i>> \notin DOMAIN cf
            THEN [kind |-> "readfail", err |-> "ENOENT", file |-> 0]
            ELSE [kind |-> "suspend", err |-> "", file |-> 0]

\* assembleFile up to its first await (lines 193-227), on session table `hp`
\* and chunk files `cf`: what the call does before it suspends or returns
assembleBegin(hp, cf, sid) ==
    IF sid \notin uploadSessions
    THEN [kind |-> "error", err |-> "Upload session not found", file |-> 0]
    ELSE LET session == hp[sid]
             missing == missingChunks(session)
         IN IF session.completed
            THEN IF session.processedFile # 0
                 THEN [kind |-> "return", err |-> "", file |-> session.processedFile]
                 ELSE [kind |-> "error", file |-> 0,
                       err |-> "Session completed but no processed file found"]
            ELSE IF missing # {}
            THEN [kind |-> "error", err |-> "Missing chunk", file |-> 0]
            ELSE IF \E i \in 0 .. (session.totalChunks - 1) : <<sid, i>> \notin DOMAIN cf
            THEN [kind |-> "readfail", err |-> "ENOENT", file |-> 0]
            ELSE [kind |-> "suspend", err |-> "", file |-> 0]

\* the catch of assembleFile: the temporary file, if one exists, is unlinked
dropTemp(sid) == Remove(tempFiles, {sid})

\* uploadChunk with the range check `chunkIndex > totalChunks` (line 103): the
\* variant C18 is tested against
uploadChunk_InclusiveBound(sid, chunkIndex, chunkBuffer, failAt) ==
    /\ sid \in SessionIds
    /\ IF sid \notin uploadSessions
       THEN /\ ret' = Err("uploadChunk", sid, "Upload session not found or expired", <<>>)
            /\ UNCHANGED <<heap, uploadSessions, diskVars, nextPath, tasks>>
       ELSE IF isSessionExpired(heap[sid])
       THEN /\ chunkFiles' = cleanupSessionFiles(sid, failAt)
            /\ uploadSessions' = uploadSessions \ {sid}
            /\ ret' = Err("uploadChunk", sid, "Upload session has expired", <<>>)
            /\ UNCHANGED <<heap, tempFiles, blobs, nextPath, tasks>>
       ELSE IF chunkIndex > heap[sid].totalChunks \/ chunkIndex < 0
       THEN /\ ret' = Err("uploadChunk", sid, "Invalid chunk index", <<>>)
            /\ UNCHANGED <<heap, uploadSessions, diskVars, nextPath, tasks>>
       ELSE LET cf == Put(chunkFiles, <<sid, chunkIndex>>, chunkBuffer)
                hp == [heap EXCEPT ![sid].chunks =
                           Put(@, chunkIndex, Size(chunkBuffer))]
                session == hp[sid]
                count == uploadedChunks(session)
                begun == assembleBegin(hp, cf, sid)
            IN /\ chunkFiles' = cf
               /\ heap' = hp
               /\ UNCHANGED <<uploadSessions, blobs>>
               /\ IF count # session.totalChunks
                  THEN /\ ret' = Ok("uploadChunk", sid, 0, <<count, session.completed>>)
                       /\ UNCHANGED <<tempFiles, nextPath, tasks>>
                  ELSE IF begun.kind = "return"
                  THEN /\ ret' = Ok("uploadChunk", sid, 0, <<count, session.completed>>)
                       /\ UNCHANGED <<tempFiles, nextPath, tasks>>
                  ELSE IF begun.kind = "error"
                  THEN /\ ret' = Err("uploadChunk", sid, begun.err, <<>>)
                       /\ UNCHANGED <<tempFiles, nextPath, tasks>>
                  ELSE IF begun.kind = "readfail"
                  THEN /\ ret' = Err("uploadChunk", sid, begun.err, <<>>)
                       /\ tempFiles' = dropTemp(sid)
                       /\ tasks' = Rebind(tasks, TempFd(sid), OrphanFd)
                       /\ UNCHANGED nextPath
                  ELSE /\ FreeSlots # {}
                       /\ nextPath <= limits.uploads
                       /\ tasks' = [tasks EXCEPT ![FreeSlot] =
                              NewTask("uploadChunk", sid, chunkIndex,
                                      ConcatOf(cf, sid, 0, session.totalChunks),
                                      <<nextPath, "">>, session.totalSize,
                                      session.mimeType)]
                       /\ nextPath' = nextPath + 1
                       /\ ret' = NoRet
                       /\ UNCHANGED tempFiles
    /\ UNCHANGED <<now, platform, limits, files>>

\* uploadChunk that does not rewrite a chunk file that exists (line 116): the
\* variant C19 is tested against
uploadChunk_KeepsOldBytes(sid, chunkIndex, chunkBuffer, failAt) ==
    /\ sid \in SessionIds
    /\ IF sid \notin uploadSessions
       THEN /\ ret' = Err("uploadChunk", sid, "Upload session not found or expired", <<>>)
            /\ UNCHANGED <<heap, uploadSessions, diskVars, nextPath, tasks>>
       ELSE IF isSessionExpired(heap[sid])
       THEN /\ chunkFiles' = cleanupSessionFiles(sid, failAt)
            /\ uploadSessions' = uploadSessions \ {sid}
            /\ ret' = Err("uploadChunk", sid, "Upload session has expired", <<>>)
            /\ UNCHANGED <<heap, tempFiles, blobs, nextPath, tasks>>
       ELSE IF chunkIndex >= heap[sid].totalChunks \/ chunkIndex < 0
       THEN /\ ret' = Err("uploadChunk", sid, "Invalid chunk index", <<>>)
            /\ UNCHANGED <<heap, uploadSessions, diskVars, nextPath, tasks>>
       ELSE LET cf == IF <<sid, chunkIndex>> \in DOMAIN chunkFiles THEN chunkFiles
                      ELSE Put(chunkFiles, <<sid, chunkIndex>>, chunkBuffer)
                hp == [heap EXCEPT ![sid].chunks =
                           Put(@, chunkIndex, Size(chunkBuffer))]
                session == hp[sid]
                count == uploadedChunks(session)
                begun == assembleBegin(hp, cf, sid)
            IN /\ chunkFiles' = cf
               /\ heap' = hp
               /\ UNCHANGED <<uploadSessions, blobs>>
               /\ IF count # session.totalChunks
                  THEN /\ ret' = Ok("uploadChunk", sid, 0, <<count, session.completed>>)
                       /\ UNCHANGED <<tempFiles, nextPath, tasks>>
                  ELSE IF begun.kind = "return"
                  THEN /\ ret' = Ok("uploadChunk", sid, 0, <<count, session.completed>>)
                       /\ UNCHANGED <<tempFiles, nextPath, tasks>>
                  ELSE IF begun.kind = "error"
                  THEN /\ ret' = Err("uploadChunk", sid, begun.err, <<>>)
                       /\ UNCHANGED <<tempFiles, nextPath, tasks>>
                  ELSE IF begun.kind = "readfail"
                  THEN /\ ret' = Err("uploadChunk", sid, begun.err, <<>>)
                       /\ tempFiles' = dropTemp(sid)
                       /\ tasks' = Rebind(tasks, TempFd(sid), OrphanFd)
                       /\ UNCHANGED nextPath
                  ELSE /\ FreeSlots # {}
                       /\ nextPath <= limits.uploads
                       /\ tasks' = [tasks EXCEPT ![FreeSlot] =
                              NewTask("uploadChunk", sid, chunkIndex,
                                      ConcatOf(cf, sid, 0, session.totalChunks),
                                      <<nextPath, "">>, session.totalSize,
                                      session.mimeType)]
                       /\ nextPath' = nextPath + 1
                       /\ ret' = NoRet
                       /\ UNCHANGED tempFiles
    /\ UNCHANGED <<now, platform, limits, files>>

\* uploadChunk (lines 92-151), with the synchronous part of the assembleFile
\* call it makes once every chunk is recorded
uploadChunk(sid, chunkIndex, chunkBuffer, failAt) ==
    /\ sid \in SessionIds
    /\ IF sid \notin uploadSessions
       THEN /\ ret' = Err("uploadChunk", sid, "Upload session not found or expired", <<>>)
            /\ UNCHANGED <<heap, uploadSessions, diskVars, nextPath, tasks>>
       ELSE IF isSessionExpired(heap[sid])
       THEN /\ chunkFiles' = cleanupSessionFiles(sid, failAt)
            /\ uploadSessions' = uploadSessions \ {sid}
            /\ ret' = Err("uploadChunk", sid, "Upload session has expired", <<>>)
            /\ UNCHANGED <<heap, tempFiles, blobs, nextPath, tasks>>
       ELSE IF chunkIndex >= heap[sid].totalChunks \/ chunkIndex < 0
       THEN /\ ret' = Err("uploadChunk", sid, "Invalid chunk index", <<>>)
            /\ UNCHANGED <<heap, uploadSessions, diskVars, nextPath, tasks>>
       ELSE LET cf == Put(chunkFiles, <<sid, chunkIndex>>, chunkBuffer)
                hp == [heap EXCEPT ![sid].chunks =
                           Put(@, chunkIndex, Size(chunkBuffer))]
                session == hp[sid]
                count == uploadedChunks(session)
                begun == assembleBegin(hp, cf, sid)
            IN /\ chunkFiles' = cf
               /\ heap' = hp
               /\ UNCHANGED <<uploadSessions, blobs>>
               /\ IF count # session.totalChunks
                  THEN /\ ret' = Ok("uploadChunk", sid, 0, <<count, session.completed>>)
                       /\ UNCHANGED <<tempFiles, nextPath, tasks>>
                  ELSE IF begun.kind = "return"
                  THEN /\ ret' = Ok("uploadChunk", sid, 0, <<count, session.completed>>)
                       /\ UNCHANGED <<tempFiles, nextPath, tasks>>
                  ELSE IF begun.kind = "error"
                  THEN /\ ret' = Err("uploadChunk", sid, begun.err, <<>>)
                       /\ UNCHANGED <<tempFiles, nextPath, tasks>>
                  ELSE IF begun.kind = "readfail"
                  THEN /\ ret' = Err("uploadChunk", sid, begun.err, <<>>)
                       /\ tempFiles' = dropTemp(sid)
                       /\ tasks' = Rebind(tasks, TempFd(sid), OrphanFd)
                       /\ UNCHANGED nextPath
                  ELSE /\ FreeSlots # {}
                       /\ nextPath <= limits.uploads
                       /\ tasks' = [tasks EXCEPT ![FreeSlot] =
                              NewTask("uploadChunk", sid, chunkIndex,
                                      ConcatOf(cf, sid, 0, session.totalChunks),
                                      <<nextPath, "">>, session.totalSize,
                                      session.mimeType)]
                       /\ nextPath' = nextPath + 1
                       /\ ret' = NoRet
                       /\ UNCHANGED tempFiles
    /\ UNCHANGED <<now, platform, limits, files>>

\* getSessionStatus (lines 156-188)
getSessionStatus(sid, failAt) ==
    /\ sid \in SessionIds
    /\ IF sid \notin uploadSessions
       THEN /\ ret' = Err("status", sid, "null", <<>>)
            /\ UNCHANGED <<uploadSessions, chunkFiles>>
       ELSE IF isSessionExpired(heap[sid])
       THEN /\ chunkFiles' = cleanupSessionFiles(sid, failAt)
            /\ uploadSessions' = uploadSessions \ {sid}
            /\ ret' = Err("status", sid, "null", <<>>)
       ELSE /\ ret' = Ok("status", sid, 0,
                         <<uploadedChunks(heap[sid]), pushMissing(heap[sid], 0),
                           progress(uploadedChunks(heap[sid]), heap[sid].totalChunks),
                           heap[sid].completed>>)
            /\ UNCHANGED <<uploadSessions, chunkFiles>>
    /\ UNCHANGED <<now, platform, limits, heap, tempFiles, blobs, nextPath,
                   files, tasks>>

\* completeUpload (controller): a direct assembleFile call, up to its first await
completeUpload(sid) ==
    /\ sid \in SessionIds
    /\ LET begun == assembleBegin(heap, chunkFiles, sid)
       IN IF begun.kind = "return"
          THEN /\ ret' = Ok("complete", sid, begun.file, <<>>)
               /\ UNCHANGED <<tempFiles, nextPath, tasks>>
          ELSE IF begun.kind = "error"
          THEN /\ ret' = Err("complete", sid, begun.err,
                             IF begun.err = "Missing chunk"
                             THEN <<firstMissing(heap[sid])>> ELSE <<>>)
               /\ UNCHANGED <<tempFiles, nextPath, tasks>>
          ELSE IF begun.kind = "readfail"
          THEN /\ ret' = Err("complete", sid, begun.err, <<>>)
               /\ tempFiles' = dropTemp(sid)
               /\ tasks' = Rebind(tasks, TempFd(sid), OrphanFd)
               /\ UNCHANGED nextPath
          ELSE /\ FreeSlots # {}
               /\ nextPath <= limits.uploads
               /\ tasks' = [tasks EXCEPT ![FreeSlot] =
                      NewTask("complete", sid, 0,
                              ConcatOf(chunkFiles, sid, 0, heap[sid].totalChunks),
                              <<nextPath, "">>, heap[sid].totalSize,
                              heap[sid].mimeType)]
               /\ nextPath' = nextPath + 1
               /\ ret' = NoRet
               /\ UNCHANGED tempFiles
    /\ UNCHANGED <<now, platform, limits, heap, uploadSessions, chunkFiles,
                   blobs, files>>

\* cancelSession without uploadSessions.delete: the variant C10 is tested
\* against
cancelSession_KeepsEntry(sid, failAt) ==
    /\ sid \in SessionIds
    /\ IF sid \in uploadSessions
       THEN /\ chunkFiles' = cleanupSessionFiles(sid, failAt)
            /\ ret' = Ok("cancel", sid, 0, <<TRUE>>)
            /\ UNCHANGED uploadSessions
       ELSE /\ ret' = Ok("cancel", sid, 0, <<FALSE>>)
            /\ UNCHANGED <<uploadSessions, chunkFiles>>
    /\ UNCHANGED <<now, platform, limits, heap, tempFiles, blobs, nextPath,
                   files, tasks>>

\* cancelSession (lines 426-434)
cancelSession(sid, failAt) ==
    /\ sid \in SessionIds
    /\ IF sid \in uploadSessions
       THEN /\ chunkFiles' = cleanupSessionFiles(sid, failAt)
            /\ uploadSessions' = uploadSessions \ {sid}
            /\ ret' = Ok("cancel", sid, 0, <<TRUE>>)
       ELSE /\ ret' = Ok("cancel", sid, 0, <<FALSE>>)
            /\ UNCHANGED <<uploadSessions, chunkFiles>>
    /\ UNCHANGED <<now, platform, limits, heap, tempFiles, blobs, nextPath,
                   files, tasks>>

\* the sweep whose loop is left at the first session whose cleanup fails: the
\* variant C23 is tested against
cleanupTimer_AbortsOnFailure(failAt) ==
    LET expiredSessions == {sid \in uploadSessions : now > heap[sid].expiresAt}
        failed == {sid \in expiredSessions : failAt[sid] < MaxChunks}
        swept == {sid \in expiredSessions : \A f \in failed : sid <= f}
    IN /\ expiredSessions # {}
       /\ chunkFiles' = Remove(chunkFiles,
              {k \in DOMAIN chunkFiles :
                   k[1] \in swept /\ k[2] < failAt[k[1]]})
       /\ uploadSessions' = uploadSessions \ swept
       /\ ret' = IF failed = {} THEN Ok("reaper", 0, 0, <<expiredSessions>>)
                 ELSE Err("reaper", 0, "EPERM", <<>>)
       /\ UNCHANGED <<now, platform, limits, heap, tempFiles, blobs, nextPath,
                      files, tasks>>

\* the sweep that passes over completed sessions: the variant C22 is tested
\* against
cleanupTimer_SparesCompleted(failAt) ==
    LET expiredSessions == {sid \in uploadSessions :
                               now > heap[sid].expiresAt /\ ~heap[sid].completed}
    IN /\ expiredSessions # {}
       /\ chunkFiles' = Remove(chunkFiles,
              {k \in DOMAIN chunkFiles :
                   k[1] \in expiredSessions /\ k[2] < failAt[k[1]]})
       /\ uploadSessions' = uploadSessions \ expiredSessions
       /\ ret' = Ok("reaper", 0, 0, <<expiredSessions>>)
       /\ UNCHANGED <<now, platform, limits, heap, tempFiles, blobs, nextPath,
                      files, tasks>>

\* one run of the interval callback of startCleanupTimer (lines 391-409)
cleanupTimer(failAt) ==
    LET expiredSessions == {sid \in uploadSessions : now > heap[sid].expiresAt}
    IN /\ expiredSessions # {}
       /\ chunkFiles' = Remove(chunkFiles,
              {k \in DOMAIN chunkFiles :
                   k[1] \in expiredSessions /\ k[2] < failAt[k[1]]})
       /\ uploadSessions' = uploadSessions \ expiredSessions
       /\ ret' = Ok("reaper", 0, 0, <<expiredSessions>>)
       /\ UNCHANGED <<now, platform, limits, heap, tempFiles, blobs, nextPath,
                      files, tasks>>

\* the clock advances
Tick ==
    /\ now < MaxTime
    /\ now' = now + 1
    /\ ret' = NoRet
    /\ UNCHANGED <<platform, limits, heap, uploadSessions, diskVars, nextPath,
                   files, tasks>>

(* --------------------------- Assembly Engine --------------------------- *)
IsAssembly(t) == tasks[t].pc # "idle" /\ tasks[t].sid # 0

\* the request of task t ends with an error.  For an assembly the catch of
\* assembleFile (lines 264-270) first unlinks the temporary file if one exists.
failTask(t, msg, tk) ==
    LET task == tasks[t]
    IN /\ ret' = Err(task.op, task.sid, msg, <<>>)
       /\ IF task.sid # 0
          THEN /\ tempFiles' = dropTemp(task.sid)
               /\ tasks' = [Rebind(tk, TempFd(task.sid), OrphanFd) EXCEPT ![t] = Idle]
          ELSE /\ tempFiles' = tempFiles
               /\ tasks' = [tk EXCEPT ![t] = Idle]

\* fs.createWriteStream(tempFilePath): the asynchronous open creates the file
\* or truncates the one that is there
streamOpen(t) ==
    /\ tasks[t].pc = "open"
    /\ tempFiles' = Put(tempFiles, tasks[t].sid, <<>>)
    /\ tasks' = [tasks EXCEPT ![t].pc = "write", ![t].fd = TempFd(tasks[t].sid)]
    /\ ret' = NoRet
    /\ UNCHANGED <<now, platform, limits, heap, uploadSessions, chunkFiles,
                   blobs, nextPath, files>>

\* the buffered writeStream.write calls reach the file the stream has open
streamWrite(t) ==
    /\ tasks[t].pc = "write"
    /\ LET fd == tasks[t].fd
           sid == tasks[t].sid
       IN /\ tempFiles' = IF fd.kind = "temp" /\ sid \in DOMAIN tempFiles
                          THEN Put(tempFiles, sid, Overlay(tasks[t].data, tempFiles[sid]))
                          ELSE tempFiles
          /\ blobs' = IF fd.kind = "blob" /\ fd.path \in DOMAIN blobs
                      THEN Put(blobs, fd.path, Overlay(tasks[t].data, blobs[fd.path]))
                      ELSE blobs
    /\ tasks' = [tasks EXCEPT ![t].pc = "finished"]
    /\ ret' = NoRet
    /\ UNCHANGED <<now, platform, limits, heap, uploadSessions, chunkFiles,
                   nextPath, files>>

\* assembleFile without the size verification (lines 236-239): the variant C5
\* is tested against
assembleFinish_NoSizeCheck(t) ==
    /\ tasks[t].pc = "finished"
    /\ LET task == tasks[t]
           sid == task.sid
       IN IF sid \notin DOMAIN tempFiles
          THEN /\ failTask(t, "ENOENT", tasks)
               /\ UNCHANGED blobs
          ELSE /\ blobs' = Put(blobs, task.path, tempFiles[sid])
               /\ tempFiles' = Remove(tempFiles, {sid})
               /\ tasks' = [Rebind(tasks, TempFd(sid), BlobFd(task.path))
                               EXCEPT ![t].pc = "hash", ![t].fd = NoFd]
               /\ ret' = NoRet
    /\ UNCHANGED <<now, platform, limits, heap, uploadSessions, chunkFiles,
                   nextPath, files>>

\* assembleFile after 'finish' (lines 235-242) and processAssembledFile up to
\* the hashing of the moved file (lines 274-312, FileService line 27)
assembleFinish(t) ==
    /\ tasks[t].pc = "finished"
    /\ LET task == tasks[t]
           sid == task.sid
       IN IF sid \notin DOMAIN tempFiles
          THEN /\ failTask(t, "ENOENT", tasks)
               /\ UNCHANGED blobs
          ELSE IF Size(tempFiles[sid]) # heap[sid].totalSize
          THEN /\ failTask(t, "Assembled file size doesn't match expected size", tasks)
               /\ UNCHANGED blobs
          ELSE /\ blobs' = Put(blobs, task.path, tempFiles[sid])
               /\ tempFiles' = Remove(tempFiles, {sid})
               /\ tasks' = [Rebind(tasks, TempFd(sid), BlobFd(task.path))
                               EXCEPT ![t].pc = "hash", ![t].fd = NoFd]
               /\ ret' = NoRet
    /\ UNCHANGED <<now, platform, limits, heap, uploadSessions, chunkFiles,
                   nextPath, files>>

(* ---------------------- Dedup Resolver + Blob Store -------------------- *)
\* the catch of processUploadedFiles unlinking every remaining file of the
\* request as well: the variant C40 is tested against
failResolve_RemovesRest(t, msg) ==
    LET path == tasks[t].path
        later == {tasks[t].rest[i].path : i \in 1 .. Len(tasks[t].rest)}
    IN /\ blobs' = Remove(blobs, {path} \cup later)
       /\ failTask(t, msg, Rebind(tasks, BlobFd(path), OrphanFd))

\* the catch of processUploadedFiles (lines 139-150): the uploaded file is
\* unlinked if it exists and the error is thrown on
failResolve(t, msg) ==
    LET path == tasks[t].path
    IN /\ blobs' = Remove(blobs, {path})
       /\ failTask(t, msg, Rebind(tasks, BlobFd(path), OrphanFd))

\* HomeController.uploadFiles: multer has stored the body under a fresh name,
\* processUploadedFiles starts and suspends in calculateFileHash
uploadFiles(content, mimeType) ==
    /\ FreeSlots # {}
    /\ nextPath <= limits.uploads
    /\ blobs' = Put(blobs, <<nextPath, "">>, content)
    /\ tasks' = [tasks EXCEPT ![FreeSlot] =
           [NewTask("upload", 0, 0, <<>>, <<nextPath, "">>, Size(content), mimeType)
               EXCEPT !.pc = "hash"]]
    /\ nextPath' = nextPath + 1
    /\ ret' = NoRet
    /\ UNCHANGED <<now, platform, limits, heap, uploadSessions, chunkFiles,
                   tempFiles, files>>

\* processUploadedFiles called with the options context and forcePublic (lines
\* 13-20) for one stored file; uploadFiles is the call with their defaults
processUploadedFiles(content, mimeType, context, forcePublic) ==
    /\ FreeSlots # {}
    /\ nextPath <= limits.uploads
    /\ blobs' = Put(blobs, <<nextPath, "">>, content)
    /\ tasks' = [tasks EXCEPT ![FreeSlot] =
           [NewTask("upload", 0, 0, <<>>, <<nextPath, "">>, Size(content), mimeType)
               EXCEPT !.pc = "hash", !.context = context, !.forcePublic = forcePublic]]
    /\ nextPath' = nextPath + 1
    /\ ret' = NoRet
    /\ UNCHANGED <<now, platform, limits, heap, uploadSessions, chunkFiles,
                   tempFiles, files>>

\* the file object multer hands over for the upload stored at `path`
fileObj(path, file) == [path |-> path, size |-> Size(file[1]), mime |-> file[2]]

\* HomeController.uploadFiles with several files in one request: multer has
\* stored them all under fresh names, processUploadedFiles starts on the first
\* and suspends in calculateFileHash; the others wait in req.files
uploadFilesBatch(batch) ==
    LET n == Len(batch)
        pathOf(i) == <<nextPath + i - 1, "">>
    IN /\ FreeSlots # {}
       /\ nextPath + n - 1 <= limits.uploads
       /\ blobs' = [p \in DOMAIN blobs \cup {pathOf(i) : i \in 1 .. n} |->
                       IF p \in DOMAIN blobs THEN blobs[p]
                       ELSE batch[p[1] - nextPath + 1][1]]
       /\ tasks' = [tasks EXCEPT ![FreeSlot] =
              [NewTask("upload", 0, 0, <<>>, pathOf(1), Size(batch[1][1]), batch[1][2])
                  EXCEPT !.pc = "hash",
                         !.rest = [i \in 1 .. (n - 1) |-> fileObj(pathOf(i + 1), batch[i + 1])]]]
       /\ nextPath' = nextPath + n
       /\ ret' = NoRet
       /\ UNCHANGED <<now, platform, limits, heap, uploadSessions, chunkFiles,
                      tempFiles, files>>

\* calculateFileHash (lines 156-165): the read stream ends, or fails
calculateFileHash(t) ==
    /\ tasks[t].pc = "hash"
    /\ IF tasks[t].path \notin DOMAIN blobs
       THEN failResolve(t, "ENOENT")
       ELSE /\ tasks' = [tasks EXCEPT ![t].pc = "lookup",
                                      ![t].hash = blobs[tasks[t].path]]
            /\ ret' = NoRet
            /\ UNCHANGED <<blobs, tempFiles>>
    /\ UNCHANGED <<now, platform, limits, heap, uploadSessions, chunkFiles,
                   nextPath, files>>

\* FileModel.findByHash: the rows with this hash that are not soft-deleted
findByHash(hash) ==
    {id \in 1 .. Len(files) : files[id].file_hash = hash /\ ~files[id].deleted}

\* shouldCompress (lines 257-280)
shouldCompress(mimeType, fileSize) ==
    IF fileSize < CompressMinSize THEN FALSE
    ELSE mimeType = "text/plain"

\* the lookup without fs.existsSync(existingFile.file_path) (line 32): the
\* variant C26 is tested against
resolveLookup_TrustsRecord(t, existingFile) ==
    /\ tasks[t].pc = "lookup"
    /\ LET task == tasks[t]
           found == findByHash(task.hash)
       IN /\ IF found = {} THEN existingFile = 0 ELSE existingFile \in found
          /\ IF existingFile # 0
             THEN /\ tasks' = [tasks EXCEPT ![t].pc = "create",
                                            ![t].existing = existingFile]
                  /\ ret' = NoRet
                  /\ UNCHANGED <<blobs, tempFiles>>
             ELSE IF task.path \notin DOMAIN blobs
             THEN failResolve(t, "ENOENT")
             ELSE IF shouldCompress(task.mime, Size(blobs[task.path]))
             THEN /\ tasks' = [tasks EXCEPT ![t].pc = "compress"]
                  /\ ret' = NoRet
                  /\ UNCHANGED <<blobs, tempFiles>>
             ELSE /\ tasks' = [tasks EXCEPT ![t].pc = "create",
                                            ![t].finalPath = task.path,
                                            ![t].finalSize = task.size]
                  /\ ret' = NoRet
                  /\ UNCHANGED <<blobs, tempFiles>>
    /\ UNCHANGED <<now, platform, limits, heap, uploadSessions, chunkFiles,
                   nextPath, files>>

\* processUploadedFiles lines 30-98: the row findByHash returns (rows[0] of a
\* query without ORDER BY: any matching row), the existsSync test of its path,
\* and the choice between the dedup branch and the new-blob branch
resolveLookup(t, existingFile) ==
    /\ tasks[t].pc = "lookup"
    /\ LET task == tasks[t]
           found == findByHash(task.hash)
       IN /\ IF found = {} THEN existingFile = 0 ELSE existingFile \in found
          /\ IF existingFile # 0 /\ files[existingFile].file_path \in DOMAIN blobs
             THEN /\ tasks' = [tasks EXCEPT ![t].pc = "create",
                                            ![t].existing = existingFile]
                  /\ ret' = NoRet
                  /\ UNCHANGED <<blobs, tempFiles>>
             ELSE IF task.path \notin DOMAIN blobs
             THEN failResolve(t, "ENOENT")
             ELSE IF shouldCompress(task.mime, Size(blobs[task.path]))
             THEN /\ tasks' = [tasks EXCEPT ![t].pc = "compress"]
                  /\ ret' = NoRet
                  /\ UNCHANGED <<blobs, tempFiles>>
             ELSE /\ tasks' = [tasks EXCEPT ![t].pc = "create",
                                            ![t].finalPath = task.path,
                                            ![t].finalSize = task.size]
                  /\ ret' = NoRet
                  /\ UNCHANGED <<blobs, tempFiles>>
    /\ UNCHANGED <<now, platform, limits, heap, uploadSessions, chunkFiles,
                   nextPath, files>>

\* sizes the gzip output of a file of `originalSize` bytes may have
GzSizes(originalSize) == {originalSize \div 2, originalSize}

\* every size the gzip output can have here: a file in the upload directory
\* has at most MaxChunks chunks of at most two blocks
CompressedSizes == UNION {GzSizes(n * chunkSize) : n \in 0 .. (2 * MaxChunks)}

GzPath(path) == <<path[1], ".gz">>

\* compressFile (lines 208-245): the gzip pipeline finishes
compressFile(t, compressedSize) ==
    /\ tasks[t].pc = "compress"
    /\ LET task == tasks[t]
       IN IF task.path \notin DOMAIN blobs
          THEN failResolve(t, "ENOENT")
          ELSE LET originalSize == Size(blobs[task.path])
               IN /\ compressedSize \in GzSizes(originalSize)
                  /\ IF compressedSize * 10 > originalSize * 9
                     THEN /\ tasks' = [tasks EXCEPT ![t].pc = "create",
                                                    ![t].finalPath = task.path,
                                                    ![t].finalSize = task.size]
                          /\ UNCHANGED blobs
                     ELSE /\ blobs' = Put(Remove(blobs, {task.path}), GzPath(task.path),
                                          <<"gz">> \o blobs[task.path])
                          /\ tasks' = [Rebind(tasks, BlobFd(task.path), OrphanFd)
                                          EXCEPT ![t].pc = "create",
                                                 ![t].finalPath = GzPath(task.path),
                                                 ![t].finalSize = compressedSize]
                  /\ ret' = NoRet
                  /\ UNCHANGED tempFiles
    /\ UNCHANGED <<now, platform, limits, heap, uploadSessions, chunkFiles,
                   nextPath, files>>

\* PUBLIC_CONTEXTS of config/publicContexts.js
PUBLIC_CONTEXTS == {"public", "avatars", "thumbnails", "assets", "static", "media"}

\* String.prototype.toLowerCase on the context names in use
toLowerCase(s) ==
    CASE s = "Public" -> "public"
      [] s = "AVATARS" -> "avatars"
      [] OTHER -> s

\* isPublicContext: PUBLIC_CONTEXTS.includes(context.toLowerCase())
isPublicContext(context) == toLowerCase(context) \in PUBLIC_CONTEXTS

\* shouldBePublic (lines 43 and 83): forcePublic !== null ? forcePublic :
\* isPublicContext(context)
shouldBePublic(forcePublic, context) ==
    IF forcePublic # "null" THEN forcePublic = "true" ELSE isPublicContext(context)

\* the row of a dedup hit taking is_public from the record it reuses: the
\* variant C32 is tested against
fileData_InheritsVisibility(t) ==
    LET task == tasks[t]
    IN IF task.existing # 0
       THEN [file_path |-> files[task.existing].file_path,
             file_size |-> task.size,
             file_hash |-> task.hash,
             deleted |-> FALSE,
             sessionId |-> task.sid,
             originalFileId |-> task.existing,
             uploadContext |-> task.context,
             is_public |-> files[task.existing].is_public]
       ELSE [file_path |-> task.finalPath,
             file_size |-> task.finalSize,
             file_hash |-> task.hash,
             deleted |-> FALSE,
             sessionId |-> task.sid,
             originalFileId |-> 0,
             uploadContext |-> task.context,
             is_public |-> shouldBePublic(task.forcePublic, task.context)]

\* the row FileModel.create inserts for task t
fileData(t) ==
    LET task == tasks[t]
    IN IF task.existing # 0
       THEN [file_path |-> files[task.existing].file_path,
             file_size |-> task.size,
             file_hash |-> task.hash,
             deleted |-> FALSE,
             sessionId |-> task.sid,
             originalFileId |-> task.existing,
             uploadContext |-> task.context,
             is_public |-> shouldBePublic(task.forcePublic, task.context)]
       ELSE [file_path |-> task.finalPath,
             file_size |-> task.finalSize,
             file_hash |-> task.hash,
             deleted |-> FALSE,
             sessionId |-> task.sid,
             originalFileId |-> 0,
             uploadContext |-> task.context,
             is_public |-> shouldBePublic(task.forcePublic, task.context)]

\* the loop of processUploadedFiles (line 24) after the record `id` of the
\* current file is pushed: the request goes on with its next file, or returns
nextFile(task, id) ==
    IF task.rest = <<>> THEN Idle
    ELSE [NewTask(task.op, task.sid, 0, <<>>, Head(task.rest).path,
                  Head(task.rest).size, Head(task.rest).mime)
             EXCEPT !.pc = "hash", !.context = task.context,
                    !.forcePublic = task.forcePublic,
                    !.rest = Tail(task.rest), !.done = Append(task.done, id)]

\* assembleFile without `session.processedFile = processedFile` (line 250): the
\* variant C36 is tested against
createRecord_NoProcessedFile(t, dbFail, failAt) ==
    /\ tasks[t].pc = "create"
    /\ LET task == tasks[t]
           sid == task.sid
           id == Len(files) + 1
       IN IF dbFail
          THEN /\ failResolve(t, "Failed to create file record")
               /\ UNCHANGED <<files, heap, chunkFiles>>
          ELSE IF task.existing # 0 /\ task.path \notin DOMAIN blobs
          THEN /\ files' = Append(files, fileData(t))
               /\ failResolve(t, "ENOENT")
               /\ UNCHANGED <<heap, chunkFiles>>
          ELSE /\ files' = Append(files, fileData(t))
               /\ blobs' = IF task.existing # 0 THEN Remove(blobs, {task.path}) ELSE blobs
               /\ tasks' = [(IF task.existing # 0
                             THEN Rebind(tasks, BlobFd(task.path), OrphanFd)
                             ELSE tasks) EXCEPT ![t] = nextFile(task, id)]
               /\ UNCHANGED tempFiles
               /\ IF sid = 0
                  THEN /\ ret' = IF task.rest = <<>>
                                 THEN Ok("upload", 0, id, Append(task.done, id))
                                 ELSE NoRet
                       /\ UNCHANGED <<heap, chunkFiles>>
                  ELSE /\ heap' = [heap EXCEPT ![sid].completed = TRUE]
                       /\ chunkFiles' = cleanupChunks(chunkFiles, sid, failAt)
                       /\ ret' = IF task.op = "uploadChunk"
                                 THEN Ok("uploadChunk", sid, 0,
                                         <<heap[sid].totalChunks, TRUE>>)
                                 ELSE Ok("complete", sid, id, <<>>)
    /\ UNCHANGED <<now, platform, limits, uploadSessions, nextPath>>

\* FileModel.create returns (processUploadedFiles lines 66-72 and 129-130), and
\* for an assembly the rest of assembleFile (lines 244-262).  dbFail: the
\* insert throws.
createRecord(t, dbFail, failAt) ==
    /\ tasks[t].pc = "create"
    /\ LET task == tasks[t]
           sid == task.sid
           id == Len(files) + 1
       IN IF dbFail
          THEN /\ failResolve(t, "Failed to create file record")
               /\ UNCHANGED <<files, heap, chunkFiles>>
          ELSE IF task.existing # 0 /\ task.path \notin DOMAIN blobs
          THEN /\ files' = Append(files, fileData(t))
               /\ failResolve(t, "ENOENT")
               /\ UNCHANGED <<heap, chunkFiles>>
          ELSE /\ files' = Append(files, fileData(t))
               /\ blobs' = IF task.existing # 0 THEN Remove(blobs, {task.path}) ELSE blobs
               /\ tasks' = [(IF task.existing # 0
                             THEN Rebind(tasks, BlobFd(task.path), OrphanFd)
                             ELSE tasks) EXCEPT ![t] = nextFile(task, id)]
               /\ UNCHANGED tempFiles
               /\ IF sid = 0
                  THEN /\ ret' = IF task.rest = <<>>
                                 THEN Ok("upload", 0, id, Append(task.done, id))
                                 ELSE NoRet
                       /\ UNCHANGED <<heap, chunkFiles>>
                  ELSE /\ heap' = [heap EXCEPT ![sid].completed = TRUE,
                                               ![sid].processedFile = id]
                       /\ chunkFiles' = cleanupChunks(chunkFiles, sid, failAt)
                       /\ ret' = IF task.op = "uploadChunk"
                                 THEN Ok("uploadChunk", sid, 0,
                                         <<heap[sid].totalChunks, TRUE>>)
                                 ELSE Ok("complete", sid, id, <<>>)
    /\ UNCHANGED <<now, platform, limits, uploadSessions, nextPath>>

\* validateFilePath (lines 653-688).  Stored paths are absolute (the upload
\* directory defaults to path.join(process.cwd(), 'uploads')): the normalized
\* path starts with '/' on POSIX and with a drive letter on Windows, it equals
\* the resolved path, and it lies under the upload directory.
validateFilePath(filePath) ==
    LET startsWithSeparator == platform = "posix"
        resolvedEqualsNormalized == TRUE
        underUploadDir == TRUE
    IN IF startsWithSeparator \/ ~resolvedEqualsNormalized THEN FALSE
       ELSE underUploadDir

\* deleteFile (FileService lines 378-416) with FileModel.findById and softDelete
deleteFile(fileId) ==
    /\ fileId \in 1 .. limits.uploads
    /\ IF fileId > Len(files) \/ files[fileId].deleted
       THEN /\ ret' = Ok("delete", 0, fileId, <<FALSE>>)
            /\ UNCHANGED <<files, blobs, tasks>>
       ELSE LET path == files[fileId].file_path
            IN /\ files' = [files EXCEPT ![fileId].deleted = TRUE]
               /\ ret' = Ok("delete", 0, fileId, <<TRUE>>)
               /\ IF validateFilePath(path) /\ path \in DOMAIN blobs
                  THEN /\ blobs' = Remove(blobs, {path})
                       /\ tasks' = Rebind(tasks, BlobFd(path), OrphanFd)
                  ELSE UNCHANGED <<blobs, tasks>>
    /\ UNCHANGED <<now, platform, limits, heap, uploadSessions, chunkFiles,
                   tempFiles, nextPath>>

(* --------------------------- specifications ---------------------------- *)
\* the steps of processUploadedFiles that both upload paths share
Resolve ==
    \/ \E t \in TaskIds : calculateFileHash(t)
    \/ \E t \in TaskIds, existingFile \in 0 .. limits.uploads : resolveLookup(t, existingFile)
    \/ \E t \in TaskIds, z \in CompressedSizes :
           compressFile(t, z)
    \/ \E t \in TaskIds, dbFail \in BOOLEAN, failAt \in 0 .. MaxChunks :
           /\ tasks[t].pc = "create"
           /\ failAt \in FailPoints(tasks[t].sid)
           /\ createRecord(t, dbFail, failAt)

\* Spec: the chunked-upload engine and the pipeline its assemblies run through.
\* Nothing in it reads the platform (only deleteFile does), so it is fixed.
Init == Start({"posix"}, MaxSessions, MaxUploads)

Next ==
    \/ \E r \in InitRequests : initializeSession(r[1], r[2])
    \/ \E sid \in SessionIds, i \in -1 .. MaxChunks, b \in ChunkBuffers :
           \E failAt \in FailPoints(sid) : uploadChunk(sid, i, b, failAt)
    \/ \E sid \in SessionIds :
           \E failAt \in FailPoints(sid) : getSessionStatus(sid, failAt)
    \/ \E sid \in SessionIds : completeUpload(sid)
    \/ \E sid \in SessionIds :
           \E failAt \in FailPoints(sid) : cancelSession(sid, failAt)
    \/ \E failAt \in [SessionIds -> 0 .. MaxChunks] :
           /\ \A sid \in SessionIds : failAt[sid] \in FailPoints(sid)
           /\ cleanupTimer(failAt)
    \/ Tick
    \/ \E t \in TaskIds : streamOpen(t)
    \/ \E t \in TaskIds : streamWrite(t)
    \/ \E t \in TaskIds : assembleFinish(t)
    \/ Resolve

Spec == Init /\ [][Next]_vars

\* SpecFiles: whole-file uploads and deletes over the same pipeline, on either
\* platform, without sessions.
InitFiles == Start(Platforms, 0, MaxUploadsFiles)

NextFiles ==
    \/ \E f \in WholeFiles : uploadFiles(f[1], f[2])
    \/ Resolve
    \/ \E fileId \in 1 .. limits.uploads : deleteFile(fileId)

SpecFiles == InitFiles /\ [][NextFiles]_vars

\* one step of the suspended request t: the I/O it awaits completes
TaskStep(t) ==
    \/ streamOpen(t)
    \/ streamWrite(t)
    \/ assembleFinish(t)
    \/ calculateFileHash(t)
    \/ \E existingFile \in 0 .. limits.uploads : resolveLookup(t, existingFile)
    \/ \E z \in CompressedSizes : compressFile(t, z)
    \/ \E dbFail \in BOOLEAN, failAt \in 0 .. MaxChunks :
           /\ tasks[t].pc = "create"
           /\ failAt \in FailPoints(tasks[t].sid)
           /\ createRecord(t, dbFail, failAt)

\* one run of the reaper's interval callback
ReaperRun ==
    \E failAt \in [SessionIds -> 0 .. MaxChunks] :
        /\ \A sid \in SessionIds : failAt[sid] \in FailPoints(sid)
        /\ cleanupTimer(failAt)

\* SpecFair: Spec with the progress the runtime guarantees.  Every pending I/O
\* completes (the event loop delivers each completion), the clock advances and
\* the interval timer of the reaper keeps firing.  Client requests are under no
\* fairness: a client may stop calling.
Fairness ==
    /\ \A t \in TaskIds : WF_vars(TaskStep(t))
    /\ WF_vars(Tick)
    /\ WF_vars(ReaperRun)

SpecFair == Init /\ [][Next]_vars /\ Fairness

\* SpecOrder: the engine of Spec driven by a client that sends, for every
\* index, the bytes of one fixed file (chunk 0 is block "a", chunk 1 is block
\* "b"), in any order and any number of times.
chunkOfFile == <<(<<"a">>), (<<"b">>)>>

InitOrder == Start({"posix"}, MaxSessions, MaxUploads)

NextOrder ==
    \/ \E r \in InitRequests : initializeSession(r[1], r[2])
    \/ \E sid \in SessionIds, i \in ChunkIndices :
           \E failAt \in FailPoints(sid) :
              uploadChunk(sid, i, chunkOfFile[i + 1], failAt)
    \/ \E sid \in SessionIds :
           \E failAt \in FailPoints(sid) : getSessionStatus(sid, failAt)
    \/ \E sid \in SessionIds : completeUpload(sid)
    \/ \E sid \in SessionIds :
           \E failAt \in FailPoints(sid) : cancelSession(sid, failAt)
    \/ ReaperRun
    \/ Tick
    \/ \E t \in TaskIds : streamOpen(t)
    \/ \E t \in TaskIds : streamWrite(t)
    \/ \E t \in TaskIds : assembleFinish(t)
    \/ Resolve

SpecOrder == InitOrder /\ [][NextOrder]_vars

\* SpecReaper: several sessions, created at different times, under the hourly
\* sweep; chunks are those of the fixed file of SpecOrder.
InitReaper == Start({"posix"}, MaxSessionsReaper, MaxUploadsReaper)

NextReaper ==
    \/ \E r \in InitRequests : initializeSession(r[1], r[2])
    \/ \E sid \in SessionIds, i \in ChunkIndices :
           \E failAt \in FailPoints(sid) :
              uploadChunk(sid, i, chunkOfFile[i + 1], failAt)
    \/ ReaperRun
    \/ Tick
    \/ \E t \in TaskIds : streamOpen(t)
    \/ \E t \in TaskIds : streamWrite(t)
    \/ \E t \in TaskIds : assembleFinish(t)
    \/ Resolve

SpecReaper == InitReaper /\ [][NextReaper]_vars

\* SpecPublic: whole-file uploads into public and private contexts, with and
\* without the forcePublic option, over the deduplicating pipeline.
Contexts == {"general", "Public"}
ForcePublic == {"null", "true", "false"}

InitPublic == Start({"posix"}, 0, MaxUploadsPublic)

NextPublic ==
    \/ \E f \in WholeFiles, context \in Contexts, forcePublic \in ForcePublic :
           processUploadedFiles(f[1], f[2], context, forcePublic)
    \/ Resolve

SpecPublic == InitPublic /\ [][NextPublic]_vars

\* SpecBatch: upload requests that carry MaxBatch files each, over the
\* deduplicating pipeline.
BatchFiles ==
    {<<(<<"a">>), "application/octet-stream">>, <<(<<"a", "a">>), "text/plain">>}
Batches == [1 .. MaxBatch -> BatchFiles]

InitBatch == Start({"posix"}, 0, MaxUploadsBatch)

NextBatch ==
    \/ \E batch \in Batches : uploadFilesBatch(batch)
    \/ Resolve

SpecBatch == InitBatch /\ [][NextBatch]_vars

(* ------------------------ init request parsing ------------------------ *)
\* A JavaScript number: NaN, or the rational num / den.
NaN == [nan |-> TRUE, num |-> 0, den |-> 1]
Num(n) == [nan |-> FALSE, num |-> n, den |-> 1]
Ratio(n, d) == [nan |-> FALSE, num |-> n, den |-> d]

\* a > b on numbers: false when either side is NaN
Greater(a, b) == ~a.nan /\ ~b.nan /\ a.num * b.den > b.num * a.den
\* a <= b on numbers: false when either side is NaN
AtMost(a, b) == ~a.nan /\ ~b.nan /\ a.num * b.den <= b.num * a.den

\* Math.ceil(a / d) for a positive integer d
MathCeilDiv(a, d) ==
    IF a.nan THEN NaN ELSE Num(-((-a.num) \div (a.den * d)))

\* A value of req.body: a JSON number (integers here) or a string, as the
\* sequence of its characters.
JsonNumber(n) == [type |-> "number", n |-> n, s |-> <<>>]
JsonString(s) == [type |-> "string", n |-> 0, s |-> s]

DigitVal(c) ==
    CASE c = "0" -> 0 [] c = "1" -> 1 [] c = "2" -> 2 [] c = "3" -> 3
      [] c = "4" -> 4 [] c = "5" -> 5 [] c = "6" -> 6 [] c = "7" -> 7
      [] c = "8" -> 8 [] c = "9" -> 9 [] OTHER -> -1

RECURSIVE DigitRun(_, _)
\* the number of decimal digits of s from position i on
DigitRun(s, i) ==
    IF i > Len(s) \/ DigitVal(s[i]) < 0 THEN 0 ELSE 1 + DigitRun(s, i + 1)

RECURSIVE DigitsValue(_, _, _)
\* the value of the decimal digits s[i .. j]
DigitsValue(s, i, j) ==
    IF j < i THEN 0 ELSE DigitsValue(s, i, j - 1) * 10 + DigitVal(s[j])

RECURSIVE Pow10(_)
Pow10(k) == IF k = 0 THEN 1 ELSE 10 * Pow10(k - 1)

\* parseInt(value): of a number, the integer itself (its decimal string parses
\* back); of a string, an optional sign and the longest run of digits that
\* follows, whatever comes after it; NaN when there is no digit.
parseInt(v) ==
    IF v.type = "number" THEN Num(v.n)
    ELSE LET s == v.s
             neg == Len(s) > 0 /\ s[1] = "-"
             start == IF neg THEN 2 ELSE 1
             run == DigitRun(s, start)
             val == DigitsValue(s, start, start + run - 1)
         IN IF run = 0 THEN NaN ELSE Num(IF neg THEN -val ELSE val)

\* the exponent below which a decimal literal with a short mantissa rounds to
\* zero in double precision (the least positive double is 5e-324)
UnderflowExponent == 400

\* ToNumber(value), the coercion of `>` and `/`: of a string, the value of the
\* whole string read as a decimal literal [-]digits[e[-]digits], NaN when the
\* string is anything else, 0 when it is empty or its value underflows.
ToNumber(v) ==
    IF v.type = "number" THEN Num(v.n)
    ELSE LET s == v.s
             neg == Len(s) > 0 /\ s[1] = "-"
             start == IF neg THEN 2 ELSE 1
             run == DigitRun(s, start)
             after == start + run
             mant == DigitsValue(s, start, after - 1)
             signed == IF neg THEN -mant ELSE mant
             hasExp == after <= Len(s) /\ s[after] = "e"
             expNeg == hasExp /\ after + 1 <= Len(s) /\ s[after + 1] = "-"
             expStart == IF expNeg THEN after + 2 ELSE after + 1
             expRun == IF hasExp THEN DigitRun(s, expStart) ELSE 0
             exp == DigitsValue(s, expStart, expStart + expRun - 1)
         IN IF Len(s) = 0 THEN Num(0)
            ELSE IF run = 0 THEN NaN
            ELSE IF ~hasExp THEN (IF after > Len(s) THEN Num(signed) ELSE NaN)
            ELSE IF expRun = 0 \/ expStart + expRun <= Len(s) THEN NaN
            ELSE IF mant = 0 THEN Num(0)
            ELSE IF ~expNeg THEN Num(signed * Pow10(exp))
            ELSE IF exp >= UnderflowExponent THEN Num(0)
            ELSE Ratio(signed, Pow10(exp))

\* !value: a number is falsy when it is 0, a string when it is empty
Falsy(v) == IF v.type = "number" THEN v.n = 0 ELSE Len(v.s) = 0

\* the totalSize values of the init requests of SpecInit
InitBodies ==
    {JsonNumber(0), JsonNumber(-512), JsonNumber(512), JsonNumber(1024),
     JsonNumber(1536),
     JsonString(<<"5", "1", "2">>), JsonString(<<"5", "1", "2", "k">>),
     JsonString(<<"5", "e", "-", "1">>), JsonString(<<"2", "e", "3">>),
     JsonString(<<"1", "e", "-", "4", "0", "0">>),
     JsonString(<<"-", "5">>), JsonString(<<"k">>), JsonString(<<>>)}

\* POST /init: validateSessionInit (the middleware), then initializeUpload (the
\* controller) and initializeSession (the service).  The middleware validates
\* parseInt(totalSize); the controller and the service use req.body.totalSize
\* itself.
initializeUpload(totalSize, mimeType) ==
    LET totalSizeNum == parseInt(totalSize)
        totalChunks == MathCeilDiv(ToNumber(totalSize), chunkSize)
        sid == Len(heap) + 1
        session == [totalSize |-> totalSize,
                    totalChunks |-> totalChunks,
                    mimeType |-> mimeType,
                    createdAt |-> now,
                    expiresAt |-> now + sessionTimeout,
                    chunks |-> <<>>,
                    completed |-> FALSE,
                    processedFile |-> 0]
    IN /\ Len(heap) < limits.sessions
       /\ IF Falsy(totalSize) \/ totalSizeNum.nan \/ AtMost(totalSizeNum, Num(0))
          THEN /\ ret' = Err("init", 0, "INVALID_TOTAL_SIZE", <<>>)
               /\ UNCHANGED <<heap, uploadSessions>>
          ELSE IF Greater(ToNumber(totalSize), Num(maxFileSize))
          THEN /\ ret' = Err("init", 0, "FILE_TOO_LARGE", <<>>)
               /\ UNCHANGED <<heap, uploadSessions>>
          ELSE /\ heap' = Append(heap, session)
               /\ uploadSessions' = uploadSessions \cup {sid}
               /\ ret' = Ok("init", sid, 0, <<totalChunks, session.expiresAt>>)
       /\ UNCHANGED <<now, platform, limits, diskVars, nextPath, files, tasks>>

\* SpecInit: init requests with every kind of totalSize, sessions that expire
\* and are cancelled or swept.
InitInit == Start({"posix"}, MaxSessionsInit, 0)

NextInit ==
    \/ \E totalSize \in InitBodies : initializeUpload(totalSize, "application/octet-stream")
    \/ \E sid \in SessionIds :
           \E failAt \in FailPoints(sid) : cancelSession(sid, failAt)
    \/ ReaperRun
    \/ Tick

SpecInit == InitInit /\ [][NextInit]_vars

(* ------------------------------ claims --------------------------------- *)
RecordsOf(sid) == {id \in 1 .. Len(files) : files[id].sessionId = sid}
TasksOn(sid) == {t \in TaskIds : tasks[t].pc # "idle" /\ tasks[t].sid = sid}
Live(sid) == sid \in uploadSessions /\ ~isSessionExpired(heap[sid])
NotFoundErrors ==
    {"Upload session not found or expired", "Upload session has expired",
     "Upload session not found", "null"}

\* C1: whatever the interleaving of the assemblies of a session (the one
\* uploadChunk starts when the last chunk is recorded, explicit complete
\* requests, re-uploads during an assembly), at most one FileRecord is ever
\* registered for the session.
C1_AtMostOneRecordPerSession ==
    \A sid \in 1 .. Len(heap) : Cardinality(RecordsOf(sid)) <= 1

\* C2: with nothing else running on the session, assemble on a completed
\* session returns the FileRecord the first successful assemble produced (the
\* first row registered for the session), creates no FileRecord and writes or
\* deletes no file.
C2_CompletedReturnsFirstRecord ==
    [][\A sid \in SessionIds :
          (completeUpload(sid) /\ sid \in uploadSessions /\ heap[sid].completed
              /\ TasksOn(sid) = {})
          => /\ ret'.ok
             /\ \A id \in RecordsOf(sid) : ret'.file <= id
             /\ ret'.file \in RecordsOf(sid)
             /\ UNCHANGED <<files, diskVars, heap>>]_vars

\* C3: for a session whose expiry has passed and that is still in the table,
\* status, putChunk and assemble each report SessionNotFound: the call returns
\* no session data, records no chunk and neither starts an assembly nor returns
\* a FileRecord.
C3_ExpiredIsNotFound ==
    [][\A sid \in SessionIds :
          (sid \in uploadSessions /\ isSessionExpired(heap[sid]))
          => /\ (\/ \E i \in -1 .. MaxChunks, b \in ChunkBuffers :
                       \E failAt \in FailPoints(sid) : uploadChunk(sid, i, b, failAt)
                 \/ \E failAt \in FailPoints(sid) : getSessionStatus(sid, failAt)
                 \/ completeUpload(sid))
                => /\ ~ret'.ok
                   /\ ret'.err \in NotFoundErrors
                   /\ ret'.sid = sid
                   /\ UNCHANGED <<heap, files, tasks>>]_vars

SizeMismatch == "Assembled file size doesn't match expected size"
AssemblyErrors == {SizeMismatch, "ENOENT", "Failed to create file record"}

\* task t answers its request in this step
Answers(t) == tasks[t].pc # "idle" /\ tasks'[t].pc = "idle"

\* C4: assemble on a live, not-completed session with an index that has no
\* ChunkRecord fails with MissingChunks, and the chunk map, the completed flag,
\* the chunk files, the temporary files, the blobs and the FileRecords are
\* after the call what they were before it.
C4_MissingChunksMutatesNothing ==
    [][\A sid \in SessionIds :
          (completeUpload(sid) /\ Live(sid) /\ ~heap[sid].completed
              /\ missingChunks(heap[sid]) # {})
          => /\ ret' = Err("complete", sid, "Missing chunk", <<firstMissing(heap[sid])>>)
             /\ UNCHANGED <<heap, uploadSessions, diskVars, files, tasks, nextPath>>]_vars

\* C4 witness: a complete request was refused for missing chunks on a live
\* session that holds some of its chunks but not all.
C4_Witness ==
    /\ ret.op = "complete" /\ ret.err = "Missing chunk"
    /\ Live(ret.sid) /\ ~heap[ret.sid].completed
    /\ DOMAIN heap[ret.sid].chunks # {}
    /\ missingChunks(heap[ret.sid]) # {}

\* C5 (as stated): an assemble on a live, not-completed session succeeds if and
\* only if every index in [0, totalChunks) has a ChunkRecord; both for a call
\* that answers at once and for one that answers after its awaits.
C5_SucceedsIffAllChunks ==
    [][\A sid \in SessionIds :
          (Live(sid) /\ ~heap[sid].completed)
          => /\ (completeUpload(sid) /\ ret'.op = "complete")
                => (ret'.ok <=> missingChunks(heap[sid]) = {})
             /\ \A t \in TaskIds :
                   (Answers(t) /\ tasks[t].sid = sid)
                   => (ret'.ok <=> missingChunks(heap[sid]) = {})]_vars

\* C5 (amended): an assemble on a live, not-completed session succeeds only if
\* every index has a ChunkRecord, and it fails with MissingChunks exactly when
\* some index has none.  With every ChunkRecord present it still fails when the
\* assembled file has another length than totalSize (SizeMismatch, raised
\* exactly in that case once the stream has finished) or when storage or the
\* insert fails.
C5_SucceedsOnlyIfAllChunks ==
    [][\A sid \in SessionIds :
          (Live(sid) /\ ~heap[sid].completed)
          => /\ (completeUpload(sid) /\ ret'.op = "complete")
                => /\ ret'.ok => missingChunks(heap[sid]) = {}
                   /\ ret'.err = "Missing chunk" <=> missingChunks(heap[sid]) # {}
             /\ \A t \in TaskIds :
                   (Answers(t) /\ tasks[t].sid = sid)
                   => /\ missingChunks(heap[sid]) = {}
                      /\ ~ret'.ok => ret'.err \in AssemblyErrors
                      /\ (assembleFinish(t) /\ sid \in DOMAIN tempFiles)
                         => (ret'.err = SizeMismatch
                                <=> Size(tempFiles[sid]) # heap[sid].totalSize)
             /\ \A t \in TaskIds :
                   (assembleFinish(t) /\ tasks[t].sid = sid /\ sid \in DOMAIN tempFiles
                       /\ Size(tempFiles[sid]) # heap[sid].totalSize)
                   => Answers(t) /\ ret'.err = SizeMismatch]_vars

\* C5 witness: an assemble failed with SizeMismatch on a live session that is
\* not completed although every index has its ChunkRecord.
C5_Witness ==
    /\ ret.op \in {"complete", "uploadChunk"} /\ ret.err = SizeMismatch
    /\ Live(ret.sid) /\ ~heap[ret.sid].completed
    /\ missingChunks(heap[ret.sid]) = {}

\* C6: an assemble called when every index has a ChunkRecord but the chunks,
\* concatenated, have another length than totalSize fails (with SizeMismatch,
\* or, read loosely, with any error); after it the temporary assembly file
\* does not exist, no FileRecord has been created and the session is still not
\* completed.
C6_SizeMismatchLeavesNoTrace ==
    [][\A t \in TaskIds :
          (Answers(t) /\ tasks[t].sid # 0 /\ Size(tasks[t].data) # tasks[t].size)
          => /\ ~ret'.ok
             /\ tasks[t].sid \notin DOMAIN tempFiles'
             /\ files' = files
             /\ ~heap'[tasks[t].sid].completed]_vars

ValidRecords(hash) == {id \in findByHash(hash) : files[id].file_path \in DOMAIN blobs}

\* C7: resolve on a file whose hash is that of a FileRecord that is not
\* soft-deleted and whose path exists on disk takes the dedup branch: it creates
\* exactly one FileRecord, with the path of such a record and the same hash,
\* removes the uploaded temporary file and leaves the other blobs as they were.
C7_DedupOnValidRecord ==
    [][\A t \in TaskIds :
          /\ \A existingFile \in 0 .. limits.uploads :
                (resolveLookup(t, existingFile) /\ ValidRecords(tasks[t].hash) # {})
                => /\ tasks'[t].pc = "create"
                   /\ tasks'[t].existing \in ValidRecords(tasks[t].hash)
                   /\ blobs' = blobs
          /\ \A failAt \in 0 .. MaxChunks :
                (createRecord(t, FALSE, failAt) /\ tasks[t].existing # 0
                    /\ tasks[t].path \in DOMAIN blobs)
                => /\ files' = Append(files, files'[Len(files')])
                   /\ files'[Len(files')].file_path = files[tasks[t].existing].file_path
                   /\ files'[Len(files')].file_hash = files[tasks[t].existing].file_hash
                   /\ blobs' = Remove(blobs, {tasks[t].path})]_vars

\* C8: two FileRecords with the same content hash have the same physical path
\* and the same stored size (stated here for records that are not
\* soft-deleted, the narrowest reading).
C8_SameHashSamePathAndSize ==
    \A i, j \in 1 .. Len(files) :
        (~files[i].deleted /\ ~files[j].deleted
            /\ files[i].file_hash = files[j].file_hash)
        => /\ files[i].file_path = files[j].file_path
           /\ files[i].file_size = files[j].file_size

\* C9: after a FileRecord is deleted, every other FileRecord that is not
\* deleted and has its content hash still has its physical path on disk.
C9_DeleteKeepsSharedBlob ==
    [][\A fileId \in 1 .. limits.uploads :
          (deleteFile(fileId) /\ fileId <= Len(files))
          => \A j \in 1 .. Len(files) :
                (j # fileId /\ ~files[j].deleted
                    /\ files[j].file_hash = files[fileId].file_hash
                    /\ files[j].file_path \in DOMAIN blobs)
                => files[j].file_path \in DOMAIN blobs']_vars

Gone(sid) == sid <= Len(heap) /\ sid \notin uploadSessions

\* C11: once cancel has returned (the session has left the table, possibly
\* with a putChunk or an assemble of it still suspended), the id never comes
\* back; every later putChunk on it is rejected as not found and records
\* nothing, and every later status or assemble on it is rejected as not found:
\* the FileRecord of an assembly that was in flight is not returned by them.
C11_CancelledIdIsDead ==
    [][\A sid \in SessionIds :
          Gone(sid)
          => /\ sid \notin uploadSessions'
             /\ \A i \in -1 .. MaxChunks, b \in ChunkBuffers, failAt \in FailPoints(sid) :
                   uploadChunk(sid, i, b, failAt)
                   => /\ ret' = Err("uploadChunk", sid,
                                    "Upload session not found or expired", <<>>)
                      /\ UNCHANGED <<heap, diskVars, files, tasks>>
             /\ \A failAt \in FailPoints(sid) :
                   getSessionStatus(sid, failAt)
                   => /\ ret' = Err("status", sid, "null", <<>>)
                      /\ UNCHANGED <<heap, diskVars, files, tasks>>
             /\ completeUpload(sid)
                => /\ ~ret'.ok /\ ret'.file = 0
                   /\ ret'.err = "Upload session not found"
                   /\ UNCHANGED <<heap, diskVars, files, tasks>>]_vars

\* C11 witness: an assemble was refused as not found for a session that was
\* cancelled (the clock has not reached any expiry) while an assembly of it
\* was still in flight.
C11_Witness ==
    /\ now = 0
    /\ ret.op = "complete" /\ ret.err = "Upload session not found"
    /\ Gone(ret.sid)
    /\ TasksOn(ret.sid) # {}

\* C12: after cancel has returned true for a session, a state is reached and
\* kept in which no chunk file and no temporary assembly file of that session
\* is on disk, whether or not an assembly was in flight or a removal failed
\* during the cancel.
C12_CancelEventuallyReclaims ==
    \A sid \in 1 .. MaxSessions :
        [](ret = Ok("cancel", sid, 0, <<TRUE>>)
              => <>[](ChunkFilesOf(sid) = {} /\ sid \notin DOMAIN tempFiles))

\* C13: a putChunk that returns an error leaves the chunk map of the session
\* as it was before the call.  A call that answers at once with an error has
\* changed no ChunkRecord; a call that suspended in the assembly it started has
\* by then created or replaced the record of its index (lines 119-124), so it
\* must not answer with an error.
C13_FailedPutChunkRecordsNothing ==
    [][\A sid \in 1 .. Len(heap) :
          /\ \A i \in -1 .. MaxChunks, b \in ChunkBuffers, failAt \in FailPoints(sid) :
                (uploadChunk(sid, i, b, failAt) /\ ~ret'.ok)
                => heap'[sid].chunks = heap[sid].chunks
          /\ \A t \in TaskIds :
                (Answers(t) /\ tasks[t].op = "uploadChunk" /\ tasks[t].sid = sid)
                => ret'.ok]_vars

\* C14: when an assemble on a session of the table fails, whatever the reason,
\* then afterwards no temporary assembly file of the session remains, the
\* session is still not completed and keeps its ChunkRecords and their chunk
\* files, so that a later assemble can succeed once the cause is removed.
C14_FailedAssembleIsRetryable ==
    [][\A sid \in SessionIds :
          (Live(sid) /\ ~ret'.ok
              /\ \/ completeUpload(sid) /\ ~heap[sid].completed
                 \/ \E t \in TaskIds : Answers(t) /\ tasks[t].sid = sid)
          => /\ sid \notin DOMAIN tempFiles'
             /\ ~heap'[sid].completed
             /\ heap'[sid].chunks = heap[sid].chunks
             /\ \A i \in DOMAIN heap'[sid].chunks : <<sid, i>> \in DOMAIN chunkFiles']_vars

fileOf(n) == [i \in 1 .. n |-> chunkOfFile[i][1]]

\* C16: for a fixed assignment of bytes to chunk indices, whatever the order
\* (and repetition) in which the chunks arrived, the file an assembly moves
\* into the upload directory is the concatenation of the chunks in index order
\* 0, 1, ..., totalChunks-1, and the content hash registered for it is the
\* hash of that concatenation.
C16_AssemblyInIndexOrder ==
    [][\A t \in TaskIds :
          /\ (tasks[t].pc = "finished" /\ tasks'[t].pc = "hash")
             => blobs'[tasks[t].path] = fileOf(heap[tasks[t].sid].totalChunks)
          /\ (Answers(t) /\ ret'.ok /\ tasks[t].sid # 0)
             => files'[Len(files')].file_hash = fileOf(heap[tasks[t].sid].totalChunks)]_vars

\* C16 witness: the assembly started by the arrival of chunk 0 of a two-chunk
\* session (chunk 1 arrived before it) has moved "a" followed by "b" into the
\* upload directory and hashed it.
C16_Witness ==
    \E t \in TaskIds :
       /\ tasks[t].pc = "create" /\ tasks[t].op = "uploadChunk" /\ tasks[t].idx = 0
       /\ heap[tasks[t].sid].totalChunks = 2
       /\ tasks[t].hash = <<"a", "b">>
       /\ tasks[t].existing = 0
       /\ blobs[tasks[t].path] = <<"a", "b">>

Assembled(sid) ==
    /\ sid <= Len(heap)
    /\ heap[sid].completed
    /\ heap[sid].processedFile \in RecordsOf(sid)
AssemblyFailed(sid) ==
    /\ ~ret.ok /\ ret.sid = sid /\ ret.op \in {"uploadChunk", "complete"}
    /\ ret.err \in AssemblyErrors

\* C20: a putChunk that is accepted on a live, not yet completed session and
\* leaves a record at every index of [0, totalChunks) starts an assembly of
\* the session in the same request, without a complete request; and every
\* assembly so started ends: the session becomes completed with a FileRecord
\* unless a size, storage or persistence failure is reported.
C20_LastChunkStartsAssembly ==
    /\ [][\A sid \in SessionIds :
             \A i \in ChunkIndices, b \in ChunkBuffers, failAt \in FailPoints(sid) :
                (/\ Live(sid) /\ ~heap[sid].completed
                 /\ i < heap[sid].totalChunks
                 /\ DOMAIN heap[sid].chunks \cup {i} = 0 .. (heap[sid].totalChunks - 1)
                 /\ uploadChunk(sid, i, b, failAt))
                => \E t \in TaskIds :
                      /\ tasks[t].pc = "idle"
                      /\ tasks'[t].pc = "open"
                      /\ tasks'[t].op = "uploadChunk"
                      /\ tasks'[t].sid = sid /\ tasks'[t].idx = i
                      /\ tasks'[t].data = ConcatOf(chunkFiles', sid, 0, heap[sid].totalChunks)]_vars
    /\ \A sid \in 1 .. MaxSessions :
          (\E t \in TaskIds :
              tasks[t].pc # "idle" /\ tasks[t].op = "uploadChunk" /\ tasks[t].sid = sid)
          ~> (Assembled(sid) \/ AssemblyFailed(sid))

\* C20 witness: the putChunk of the last missing chunk of a two-chunk session
\* was answered, after the assembly it started, with completed = true, and the
\* session holds the FileRecord; no complete request was made (the record
\* count says one assembly ran).
C20_Witness ==
    /\ ret = Ok("uploadChunk", ret.sid, 0, <<2, TRUE>>)
    /\ ret.sid \in uploadSessions
    /\ Assembled(ret.sid)
    /\ Len(files) = 1

\* C21: the assembly started by putChunk is fire-and-forget for its caller: a
\* putChunk whose chunk was written and recorded is answered with a successful
\* acknowledgement, whether the assembly it triggered succeeds or fails.
C21_PutChunkAcknowledgedAnyway ==
    [][\A t \in TaskIds :
          (/\ Answers(t)
           /\ tasks[t].op = "uploadChunk"
           /\ tasks[t].sid \in 1 .. Len(heap)
           /\ tasks[t].idx \in DOMAIN heap[tasks[t].sid].chunks)
          => ret'.ok /\ ret'.op = "uploadChunk" /\ ret'.sid = tasks[t].sid]_vars

ExpiredSessions == {sid \in uploadSessions : isSessionExpired(heap[sid])}

\* C22 (as stated): a Reaper cycle removes from the table every session whose
\* expiry has passed when it scans, completed or not, and deletes its chunk
\* files; sessions whose expiry has not passed keep their table entry, chunk
\* map and files.
C22_SweepRemovesExpired ==
    [][ReaperRun
       => /\ uploadSessions' = uploadSessions \ ExpiredSessions
          /\ \A k \in DOMAIN chunkFiles' : k[1] \notin ExpiredSessions
          /\ \A sid \in uploadSessions \ ExpiredSessions :
                /\ heap'[sid] = heap[sid]
                /\ \A k \in ChunkFilesOf(sid) :
                      k \in DOMAIN chunkFiles' /\ chunkFiles'[k] = chunkFiles[k]]_vars

\* C22 (amended): a Reaper cycle removes from the table every session whose
\* expiry has passed when it scans, completed or not, and deletes the chunk
\* files of each of them up to the first one whose removal fails (all of them
\* when none fails); sessions whose expiry has not passed keep their table
\* entry, chunk map and files, and no session object is modified.
C22_SweepRemovesExpiredEntries ==
    [][ReaperRun
       => /\ ExpiredSessions # {}
          /\ uploadSessions' = uploadSessions \ ExpiredSessions
          /\ \A sid \in ExpiredSessions :
                \E failAt \in FailPoints(sid) :
                   {k \in DOMAIN chunkFiles' : k[1] = sid}
                      = {k \in ChunkFilesOf(sid) : k[2] >= failAt}
          /\ \A k \in DOMAIN chunkFiles' :
                k \in DOMAIN chunkFiles /\ chunkFiles'[k] = chunkFiles[k]
          /\ \A k \in DOMAIN chunkFiles :
                k[1] \notin ExpiredSessions => k \in DOMAIN chunkFiles'
          /\ UNCHANGED <<heap, tempFiles, blobs, files, tasks>>]_vars

\* C22 witness: a cycle has removed session 1, expired with a recorded chunk
\* and not completed, together with its chunk file, and has left session 2,
\* not expired, with its chunk file.
C22_Witness ==
    /\ ret.ok /\ ret.op = "reaper" /\ ret.info = <<{1}>>
    /\ Len(heap) = 2
    /\ uploadSessions = {2} /\ ~isSessionExpired(heap[2])
    /\ heap[1].chunks # <<>> /\ ~heap[1].completed
    /\ ChunkFilesOf(1) = {} /\ ChunkFilesOf(2) # {}

\* C23: if deleting the chunk files of one expired session fails during a
\* Reaper cycle, the failure is not propagated (the cycle ends normally) and
\* the same cycle still removes every expired session from the table, and the
\* chunk files of every other expired session whose own removal does not fail.
C23_SweepSurvivesFailure ==
    [][\A failAt \in [SessionIds -> 0 .. MaxChunks] :
          (/\ \A sid \in SessionIds : failAt[sid] \in FailPoints(sid)
           /\ cleanupTimer(failAt)
           /\ \E sid \in ExpiredSessions : failAt[sid] < MaxChunks)
          => /\ ret' = Ok("reaper", 0, 0, <<ExpiredSessions>>)
             /\ \A other \in ExpiredSessions :
                   /\ other \notin uploadSessions'
                   /\ failAt[other] = MaxChunks
                      => \A k \in DOMAIN chunkFiles' : k[1] # other]_vars

\* C23 witness: one cycle swept two expired sessions; the removal of the chunk
\* file of session 1 failed (the file is still there), and session 2, swept
\* after it, is gone from the table with its chunk file.
C23_Witness ==
    /\ ret = Ok("reaper", 0, 0, <<{1, 2}>>)
    /\ uploadSessions = {}
    /\ ChunkFilesOf(1) # {}
    /\ heap[2].chunks # <<>> /\ ~heap[2].completed /\ ChunkFilesOf(2) = {}

\* C24: any operation (putChunk, status, assemble, cancel) called with the id
\* of a session of the table whose expiry has passed purges that session: when
\* the call returns, the session is absent from the table.  (The part of the
\* claim about the chunk files is left out here: it is the subject of C10.)
C24_AnyCallPurgesExpired ==
    [][\A sid \in uploadSessions :
          isSessionExpired(heap[sid])
          => /\ \A i \in ChunkIndices, b \in ChunkBuffers, failAt \in FailPoints(sid) :
                   uploadChunk(sid, i, b, failAt) => sid \notin uploadSessions'
             /\ \A failAt \in FailPoints(sid) :
                   (getSessionStatus(sid, failAt) \/ cancelSession(sid, failAt))
                   => sid \notin uploadSessions'
             /\ completeUpload(sid) => sid \notin uploadSessions']_vars

\* C25: when assemble fails because chunks are missing, the MissingChunks
\* error carries the complete list of the missing indices, the list status
\* reports for the session at that moment.
C25_ErrorListsAllMissing ==
    [][\A sid \in SessionIds :
          (completeUpload(sid) /\ ret'.err = "Missing chunk")
          => /\ Len(ret'.info) = Len(pushMissing(heap[sid], 0))
             /\ \A j \in 1 .. Len(ret'.info) : ret'.info[j] = pushMissing(heap[sid], 0)[j]]_vars

\* C26: if the FileRecord found for the hash of the uploaded content has a
\* physical path that is missing from disk, resolve does not fail: it goes on
\* as for new content (compression, then the record), and the FileRecord it
\* creates references the uploaded file's own path (or its .gz), not the
\* missing one, and is not marked as a duplicate.
C26_MissingPathMeansNewContent ==
    [][\A t \in TaskIds :
          /\ \A existingFile \in 1 .. limits.uploads :
                (/\ tasks[t].pc = "lookup"
                 /\ existingFile \in findByHash(tasks[t].hash)
                 /\ files[existingFile].file_path \notin DOMAIN blobs
                 /\ tasks[t].path \in DOMAIN blobs
                 /\ resolveLookup(t, existingFile))
                => /\ ret' = NoRet
                   /\ tasks'[t].pc \in {"compress", "create"}
                   /\ tasks'[t].existing = 0
                   /\ UNCHANGED <<blobs, files>>
          /\ \A failAt \in 0 .. MaxChunks :
                (/\ tasks[t].pc = "create" /\ tasks[t].existing = 0
                 /\ createRecord(t, FALSE, failAt))
                => /\ ret'.ok /\ ret'.file = Len(files')
                   /\ files' = Append(files, files'[Len(files')])
                   /\ files'[Len(files')].file_hash = tasks[t].hash
                   /\ files'[Len(files')].originalFileId = 0
                   /\ files'[Len(files')].file_path \in {tasks[t].path, GzPath(tasks[t].path)}
                   /\ \A id \in findByHash(tasks[t].hash) :
                         files[id].file_path \notin DOMAIN blobs
                         => files'[Len(files')].file_path # files[id].file_path
                   /\ blobs' = blobs]_vars

\* C26 witness: an upload whose hash is that of a live FileRecord with a
\* missing path was registered as new content under a path that exists.
C26_Witness ==
    /\ ret.ok /\ ret.op = "upload" /\ ret.file = Len(files)
    /\ files[ret.file].originalFileId = 0
    /\ files[ret.file].file_path \in DOMAIN blobs
    /\ \E id \in 1 .. (ret.file - 1) :
          /\ files[id].file_hash = files[ret.file].file_hash
          /\ ~files[id].deleted
          /\ files[id].file_path \notin DOMAIN blobs
          /\ \A other \in 1 .. (ret.file - 1) :
                (files[other].file_hash = files[ret.file].file_hash /\ ~files[other].deleted)
                => files[other].file_path \notin DOMAIN blobs

\* C27: resolve reuses an existing blob whenever at least one FileRecord with
\* the same hash is not soft-deleted and has its path on disk, and only such a
\* record is ever the dedup target: soft-deleted records and records with a
\* missing path are never used and never prevent the reuse of a valid one.
C27_ReuseIffValidRecordExists ==
    [][\A t \in TaskIds, existingFile \in 0 .. limits.uploads :
          (tasks[t].pc = "lookup" /\ resolveLookup(t, existingFile) /\ ret' = NoRet)
          => /\ tasks'[t].existing # 0 <=> ValidRecords(tasks[t].hash) # {}
             /\ tasks'[t].existing # 0
                => tasks'[t].existing \in ValidRecords(tasks[t].hash)]_vars

\* C28: putChunk calls for different indices of one live session, however
\* they interleave (also with a running assembly), all succeed, and each leaves
\* in the chunk map a record for its index with its own size and on disk its
\* own bytes, keeps the records of the other indices, and counts both.
C28_ConcurrentPutChunksBothSucceed ==
    [][\A sid \in uploadSessions :
          /\ \A i \in ChunkIndices, b \in ChunkBuffers, failAt \in FailPoints(sid) :
                (/\ ~isSessionExpired(heap[sid])
                 /\ i < heap[sid].totalChunks
                 /\ uploadChunk(sid, i, b, failAt))
                => /\ ret'.ok
                   /\ DOMAIN heap'[sid].chunks = DOMAIN heap[sid].chunks \cup {i}
                   /\ heap'[sid].chunks[i] = Size(b)
                   /\ chunkFiles'[<<sid, i>>] = b
                   /\ \A j \in DOMAIN heap[sid].chunks \ {i} :
                         /\ heap'[sid].chunks[j] = heap[sid].chunks[j]
                         /\ <<sid, j>> \in DOMAIN chunkFiles
                            => chunkFiles'[<<sid, j>>] = chunkFiles[<<sid, j>>]
          /\ \A t \in TaskIds :
                (/\ Answers(t) /\ tasks[t].op = "uploadChunk" /\ tasks[t].sid = sid
                 /\ Cardinality(DOMAIN heap[sid].chunks) >= 2)
                => /\ ret'.ok
                   /\ heap'[sid].chunks = heap[sid].chunks]_vars

\* the arithmetic C29 states of one session: totalChunks is the ceiling of
\* totalSize / chunkSize, at least 1, and brackets totalSize
C29_CeilingOf(session) ==
    LET size == ToNumber(session.totalSize)
        count == session.totalChunks
    IN /\ ~size.nan
       /\ ~count.nan
       /\ count = MathCeilDiv(size, chunkSize)
       /\ count.num >= 1
       /\ (count.num - 1) * chunkSize * size.den < size.num
       /\ size.num <= count.num * chunkSize * size.den

\* C29: every session created by init has totalChunks = ceil(totalSize /
\* chunkSize), hence totalChunks >= 1 and (totalChunks - 1) * chunkSize <
\* totalSize <= totalChunks * chunkSize; init returns that totalChunks, and the
\* totalChunks of a session never changes afterwards.
C29_TotalChunksIsCeiling ==
    [][/\ \A sid \in 1 .. Len(heap) :
              heap'[sid].totalChunks = heap[sid].totalChunks
       /\ \A sid \in (1 .. Len(heap')) \ (1 .. Len(heap)) :
              /\ C29_CeilingOf(heap'[sid])
              /\ ret'.op = "init" /\ ret'.ok
              /\ ret'.info[1] = heap'[sid].totalChunks]_vars

\* C30: init with totalSize <= 0 or totalSize greater than the configured
\* maximum fails with an invalid-size error (INVALID_TOTAL_SIZE or
\* FILE_TOO_LARGE) and leaves the session table unchanged.
C30_InvalidSizeCreatesNoSession ==
    [][\A totalSize \in InitBodies :
           (/\ initializeUpload(totalSize, "application/octet-stream")
            /\ \/ AtMost(ToNumber(totalSize), Num(0))
               \/ Greater(ToNumber(totalSize), Num(maxFileSize)))
           => /\ ~ret'.ok
              /\ ret'.err \in {"INVALID_TOTAL_SIZE", "FILE_TOO_LARGE"}
              /\ UNCHANGED <<heap, uploadSessions>>]_vars

DedupRecords == {id \in 1 .. Len(files) : files[id].originalFileId # 0}

\* C32: the is_public flag of a record created by a dedup hit is a function of
\* the caller's context and forcePublic option alone: the step that creates
\* the record gives it shouldBePublic of the caller's options, whatever the
\* context and visibility of the record whose blob it reuses.
C32_DedupVisibilityFromCallerOnly ==
    [][\A t \in TaskIds :
           (tasks[t].pc = "create" /\ tasks[t].existing # 0 /\ Answers(t)
              /\ Len(files') = Len(files) + 1)
           => LET new == files'[Len(files')]
              IN /\ new.originalFileId = tasks[t].existing
                 /\ new.is_public =
                        shouldBePublic(tasks[t].forcePublic, tasks[t].context)
                 /\ new.uploadContext = tasks[t].context]_vars

\* a dedup record whose visibility differs from that of the record it reuses,
\* in both directions
C32_Witness ==
    /\ \E id \in DedupRecords :
           files[id].is_public /\ ~files[files[id].originalFileId].is_public
    /\ \E id \in DedupRecords :
           ~files[id].is_public /\ files[files[id].originalFileId].is_public

\* error.message.includes('not found') || error.message.includes('expired'),
\* on the messages the service throws
includesNotFoundOrExpired(msg) ==
    msg \in {"Upload session not found or expired", "Upload session has expired",
             "Upload session not found"}

\* what the controller sends for the outcome r of the service's uploadChunk
\* (ChunkedUploadController lines 160-188)
uploadChunkResponse(r) ==
    IF r.ok
    THEN [status |-> 200, code |-> "", error |-> "", details |-> ""]
    ELSE IF includesNotFoundOrExpired(r.err)
    THEN [status |-> 404, code |-> "SESSION_NOT_FOUND", error |-> r.err,
          details |-> ""]
    ELSE [status |-> 500, code |-> "CHUNK_UPLOAD_FAILED",
          error |-> "Chunk upload failed", details |-> r.err]

\* what the controller sends for the outcome r of getSessionStatus (lines
\* 196-210): null becomes a fixed 404
getSessionStatusResponse(r) ==
    IF r.ok
    THEN [status |-> 200, code |-> "", error |-> "", details |-> ""]
    ELSE [status |-> 404, code |-> "SESSION_NOT_FOUND",
          error |-> "Upload session not found or expired", details |-> ""]

\* the response to a putChunk on a session id that is not in the table
AbsentUploadChunkResponse ==
    uploadChunkResponse(Err("uploadChunk", 0, "Upload session not found or expired", <<>>))

\* C33: status and putChunk answer a call on an expired session exactly as they
\* answer a call on a session id that was never created: the response (status,
\* code, error text) is the same, so the caller cannot tell the two apart.
C33_ExpiredLooksAbsent ==
    [][\A sid \in SessionIds :
          (sid \in uploadSessions /\ isSessionExpired(heap[sid]))
          => /\ (\E i \in ChunkIndices, b \in ChunkBuffers :
                    \E failAt \in FailPoints(sid) : uploadChunk(sid, i, b, failAt))
                => uploadChunkResponse(ret') = AbsentUploadChunkResponse
             /\ (\E failAt \in FailPoints(sid) : getSessionStatus(sid, failAt))
                => getSessionStatusResponse(ret')
                     = getSessionStatusResponse(Err("status", 0, "null", <<>>))]_vars

\* the paths that live FileRecords reference
ReferencedPaths == {files[id].file_path : id \in {i \in 1 .. Len(files) : ~files[i].deleted}}

\* C34: the bytes at a path that a FileRecord references never change: as long
\* as the blob exists, every step leaves its content as it was.
C34_ReferencedBlobImmutable ==
    [][\A p \in ReferencedPaths :
           (p \in DOMAIN blobs /\ p \in DOMAIN blobs') => blobs'[p] = blobs[p]]_vars

\* C35: a session's expiresAt is its creation time plus sessionTimeout and no
\* step changes it; putChunk and status on a session of the table answer
\* not-found exactly when the clock has passed createdAt + sessionTimeout,
\* whatever was uploaded and however recently.
C35_ExpiryFixedAtCreation ==
    [][/\ \A sid \in 1 .. Len(heap) :
             /\ heap'[sid].expiresAt = heap[sid].expiresAt
             /\ heap'[sid].createdAt = heap[sid].createdAt
       /\ \A sid \in (1 .. Len(heap')) \ (1 .. Len(heap)) :
             /\ heap'[sid].createdAt = now
             /\ heap'[sid].expiresAt = now + sessionTimeout
       /\ \A sid \in uploadSessions :
             (/\ ret'.op \in {"status", "uploadChunk"} \/ nextPath' # nextPath
              /\ \/ \E failAt \in FailPoints(sid) : getSessionStatus(sid, failAt)
                 \/ \E i \in ChunkIndices, b \in ChunkBuffers :
                        \E failAt \in FailPoints(sid) : uploadChunk(sid, i, b, failAt))
             => ((~ret'.ok /\ ret'.err \in NotFoundErrors)
                   <=> now > heap[sid].createdAt + sessionTimeout)]_vars

\* a session that holds a chunk, has outlived its timeout and has just been
\* answered not-found by status
C35_Witness ==
    \E sid \in 1 .. Len(heap) :
        /\ DOMAIN heap[sid].chunks # {}
        /\ now > heap[sid].createdAt + sessionTimeout
        /\ ret = Err("status", sid, "null", <<>>)

\* what C36 states of a completed session: its FileRecord is stored, every
\* index has a ChunkRecord, assemble does not fail on it and status reports
\* progress 100 with no missing chunk
C36_CompletedIsWhole(hp, fl, sid) ==
    LET session == hp[sid]
    IN session.completed =>
          /\ session.processedFile \in 1 .. Len(fl)
          /\ fl[session.processedFile].sessionId = sid
          /\ DOMAIN session.chunks = 0 .. (session.totalChunks - 1)
          /\ pushMissing(session, 0) = <<>>
          /\ progress(uploadedChunks(session), session.totalChunks) = 100

\* C36: in every reachable state a completed session has a stored FileRecord
\* and a ChunkRecord for every index (so 'Session completed but no processed
\* file found' is never answered and status reports progress 100 with nothing
\* missing), and completed never goes from true back to false.
C36_CompletedStaysWhole ==
    [][/\ \A sid \in 1 .. Len(heap') : C36_CompletedIsWhole(heap', files', sid)
       /\ \A sid \in 1 .. Len(heap) : heap[sid].completed => heap'[sid].completed
       /\ ret'.err # "Session completed but no processed file found"]_vars

\* status has just reported a completed session: every chunk uploaded, none
\* missing, progress 100
C36_Witness ==
    \E sid \in uploadSessions :
        /\ heap[sid].completed
        /\ heap[sid].processedFile # 0
        /\ ret = Ok("status", sid, 0, <<heap[sid].totalChunks, <<>>, 100, TRUE>>)

\* an assemble or complete request on sid has just returned record f
Returned(sid, f) ==
    ret.op = "complete" /\ ret.ok /\ ret.sid = sid /\ ret.file = f

\* C37: once an assemble or complete request on a session has returned
\* FileRecord f, every later successful assemble or complete request on that
\* session, while it is in the table, returns f again.  Stated on successive
\* responses: an answer with record f is never directly followed by an answer
\* with another record for the same session.
C37_LaterCompletesReturnSameRecord ==
    [][\A sid \in uploadSessions, f \in 1 .. Len(files), g \in 1 .. Len(files') :
           (Returned(sid, f) /\ Returned(sid, g)' /\ sid \in uploadSessions')
           => g = f]_vars

\* C38: the output of an assembly is the concatenation of the chunk contents as
\* they were when it started (the bytes it read before it first yielded):
\* whatever putChunk, cancel or sweep ran in between, the file an assembly
\* moves into the upload directory holds exactly those bytes.
C38_OutputIsSnapshotAtStart ==
    [][\A t \in TaskIds :
           (IsAssembly(t) /\ tasks[t].pc = "finished" /\ tasks'[t].pc = "hash")
           => /\ tasks'[t].data = tasks[t].data
              /\ blobs'[tasks[t].path] = tasks[t].data]_vars

\* putChunk on a completed, unexpired session with an index in range: the
\* chunk file is rewritten, the record replaced, completed and the stored
\* FileRecord stay, no FileRecord is created, no assembly starts and the
\* answer reports completed = true
RewriteOnCompleted ==
    \A sid \in SessionIds, i \in ChunkIndices, b \in ChunkBuffers :
        (/\ sid \in uploadSessions
         /\ heap[sid].completed
         /\ ~isSessionExpired(heap[sid])
         /\ i < heap[sid].totalChunks
         /\ \E failAt \in FailPoints(sid) : uploadChunk(sid, i, b, failAt))
        => /\ ret' = Ok("uploadChunk", sid, 0, <<heap[sid].totalChunks, TRUE>>)
           /\ chunkFiles' = Put(chunkFiles, <<sid, i>>, b)
           /\ heap'[sid].chunks[i] = Size(b)
           /\ heap'[sid].completed
           /\ heap'[sid].processedFile = heap[sid].processedFile
           /\ UNCHANGED <<files, tasks, blobs, tempFiles, uploadSessions>>

\* a chunk file of a completed session stays on disk for as long as the
\* session is in the table
ChunkOfCompletedStays ==
    \A sid \in uploadSessions :
        (heap[sid].completed /\ sid \in uploadSessions')
        => \A k \in ChunkFilesOf(sid) : k \in DOMAIN chunkFiles'

\* C39: putChunk with a valid index on a completed, unexpired session is not
\* rejected: it rewrites the chunk file and replaces the ChunkRecord, leaves
\* completed and the stored FileRecord as they are, creates no FileRecord and
\* reports completed = true; and the rewritten chunk file stays on disk until
\* the session is cancelled or reaped.
C39_RewriteOnCompletedSession ==
    [][RewriteOnCompleted /\ ChunkOfCompletedStays]_vars

\* the accepted rewrite alone: the part of C39 about the putChunk step
C39_RewriteAccepted == [][RewriteOnCompleted]_vars

\* C40: processUploadedFiles is not atomic over the files of a request.  When
\* the processing of the k-th file fails, the error is returned, the uploaded
\* file of that k-th file is gone from disk, the records created for files
\* 1..k-1 and their blobs stay as they are, and the files after k are left on
\* disk as uploaded, without a record.
C40_BatchIsNotAtomic ==
    [][\A t \in TaskIds :
           (tasks[t].pc # "idle" /\ tasks[t].op = "upload" /\ Answers(t) /\ ~ret'.ok)
           => LET task == tasks[t]
              IN /\ ret' = Err("upload", 0, ret'.err, <<>>)
                 /\ task.path \notin DOMAIN blobs'
                 /\ \A i \in 1 .. Len(task.done) :
                        LET id == task.done[i]
                        IN /\ files'[id] = files[id]
                           /\ ~files'[id].deleted
                           /\ files[id].file_path \in DOMAIN blobs
                              => /\ files[id].file_path \in DOMAIN blobs'
                                 /\ blobs'[files[id].file_path] = blobs[files[id].file_path]
                 /\ \A i \in 1 .. Len(task.rest) :
                        LET later == task.rest[i].path
                        IN /\ later \in DOMAIN blobs
                           /\ later \in DOMAIN blobs'
                           /\ blobs'[later] = blobs[later]
                           /\ \A id \in 1 .. Len(files') : files'[id].file_path # later]_vars

\* one request of three files has ended with an error at its second file: the
\* record of the first file is stored, the second upload is gone, the third is
\* on disk without a record
C40_Witness ==
    /\ nextPath = MaxBatch + 1
    /\ \A t \in TaskIds : tasks[t].pc = "idle"
    /\ ret.op = "upload" /\ ~ret.ok
    /\ Len(files) = 1
    /\ <<2, "">> \notin DOMAIN blobs
    /\ <<3, "">> \in DOMAIN blobs
    /\ \A id \in 1 .. Len(files) : files[id].file_path # <<3, "">>

====
